---- MODULE Spec2Model ----
(***************************************************************************)
(* newzletter: the idempotent "publish newsletter" handler, its persisted  *)
(* response cache, and the delivery worker that drains the issue delivery  *)
(* queue.  The storage is SQLite reached through an sqlx pool: every       *)
(* statement outside a transaction commits on its own, a transaction's     *)
(* writes are private until COMMIT, and at most one connection writes at a *)
(* time (a second writer waits for the first to commit or roll back).      *)
(***************************************************************************)
EXTENDS Integers, Sequences, FiniteSets, TLC

\* ------------------------------------------------------------------ bounds

\* Publish requests the model lets arrive.
MaxRequests == 2
\* try_execute_task executions that may run side by side.
NumWorkers == 2
\* Header pairs appended to a response handed to save_response.
MaxHeaders == 3
\* Subscribe requests the model lets arrive.
MaxSubscribes == 2

\* --------------------------------------------------------------- constants

\* StatusCode::BAD_REQUEST, StatusCode::INTERNAL_SERVER_ERROR, and the status
\* of Redirect::to (303 See Other).
BAD_REQUEST == 400
INTERNAL_SERVER_ERROR == 500
SEE_OTHER == 303

\* SQL NULL and a present column value.
NULL == <<>>
Some(v) == <<v>>

Ok(v) == [ok |-> TRUE, value |-> v]
Err(e) == [ok |-> FALSE, value |-> e]

\* ---------------------------------------------------------------- HeaderMap

\* http::HeaderMap: one entry per name in order of first insertion, each
\* entry holding that name's values in order of insertion.
EmptyHeaderMap == <<>>

HeaderMapNames(map) == {map[i].name : i \in 1..Len(map)}

HeaderMapInsert(map, name, value) ==
    IF name \in HeaderMapNames(map)
    THEN [i \in 1..Len(map) |->
            IF map[i].name = name
            THEN [name |-> name, values |-> <<value>>]
            ELSE map[i]]
    ELSE Append(map, [name |-> name, values |-> <<value>>])

HeaderMapAppend(map, name, value) ==
    IF name \in HeaderMapNames(map)
    THEN [i \in 1..Len(map) |->
            IF map[i].name = name
            THEN [name |-> name, values |-> Append(map[i].values, value)]
            ELSE map[i]]
    ELSE Append(map, [name |-> name, values |-> <<value>>])

RECURSIVE EntryPairs(_, _)
EntryPairs(name, values) ==
    IF values = <<>> THEN <<>>
    ELSE <<[name |-> name, value |-> Head(values)]>> \o EntryPairs(name, Tail(values))

\* HeaderMap::iter: the (name, value) pairs, entry by entry.
RECURSIVE HeaderMapIter(_)
HeaderMapIter(map) ==
    IF map = <<>> THEN <<>>
    ELSE EntryPairs(Head(map).name, Head(map).values) \o HeaderMapIter(Tail(map))

\* Header names the model builds responses from (already lower case, as
\* HeaderName::as_str gives them), and the bytes a HeaderValue may hold.
HeaderNames == {"location", "set-cookie"}
HeaderValues == {<<47, 97>>, <<255>>, <<>>}

HeaderNameFromBytes(name) ==
    IF name \in HeaderNames THEN Ok(name) ELSE Err("InvalidHeaderName")

HeaderValueFromBytes(value) ==
    IF \A i \in 1..Len(value) :
          (value[i] >= 32 /\ value[i] <= 255 /\ value[i] # 127) \/ value[i] = 9
    THEN Ok(value) ELSE Err("InvalidHeaderValue")

\* ------------------------------------------------- status code conversions

\* `as i16` of a u16.
AsI16(u) == IF u % 65536 >= 32768 THEN (u % 65536) - 65536 ELSE u % 65536
\* `as i8` of a u16 (a narrower column).
AsI8(u) == IF u % 256 >= 128 THEN (u % 256) - 256 ELSE u % 256
\* i64 -> u16 by try_into.
TryIntoU16(i) == IF i >= 0 /\ i <= 65535 THEN Ok(i) ELSE Err("TryFromIntError")
\* StatusCode::from_u16.
StatusCodeFromU16(u) == IF u >= 100 /\ u < 1000 THEN Ok(u) ELSE Err("InvalidStatusCode")

\* save_response: the status code column.
SaveStatusCodeNarrow(status) == AsI8(status)
SaveStatusCode(status) == AsI16(status)

\* save_response: the headers column, the JSON list of HeaderPair.
SaveHeaders(headers) == HeaderMapIter(headers)

\* get_saved_response: the header map rebuilt from the stored pairs.
RECURSIVE LoadHeadersInsert(_, _)
LoadHeadersInsert(map, pairs) ==
    IF pairs = <<>> THEN Ok(map)
    ELSE LET name == HeaderNameFromBytes(Head(pairs).name)
             value == HeaderValueFromBytes(Head(pairs).value)
         IN  IF ~name.ok THEN name
             ELSE IF ~value.ok THEN value
             ELSE LoadHeadersInsert(HeaderMapInsert(map, name.value, value.value), Tail(pairs))

RECURSIVE LoadHeaders(_, _)
LoadHeaders(map, pairs) ==
    IF pairs = <<>> THEN Ok(map)
    ELSE LET name == HeaderNameFromBytes(Head(pairs).name)
             value == HeaderValueFromBytes(Head(pairs).value)
         IN  IF ~name.ok THEN name
             ELSE IF ~value.ok THEN value
             ELSE LoadHeaders(HeaderMapAppend(map, name.value, value.value), Tail(pairs))

\* An HTTP response: status code, header map, body bytes.
Response(status, headers, body) == [status |-> status, headers |-> headers, body |-> body]

\* The row save_response writes for (user_id, idempotency_key).
SavedRow(user_id, idempotency_key, http_response) ==
    [user_uuid |-> user_id,
     idempotency_key |-> idempotency_key,
     response_status_code |-> Some(SaveStatusCode(http_response.status)),
     response_headers |-> Some(SaveHeaders(http_response.headers)),
     response_body |-> Some(http_response.body)]

\* The reserved row try_processing inserts: the response columns are NULL.
ReservedRow(user_id, idempotency_key) ==
    [user_uuid |-> user_id,
     idempotency_key |-> idempotency_key,
     response_status_code |-> NULL,
     response_headers |-> NULL,
     response_body |-> NULL]

RowsOf(table, user_id, idempotency_key) ==
    {row \in table : row.user_uuid = user_id /\ row.idempotency_key = idempotency_key}

\* get_saved_response on the committed table: Ok(<<>>) for no row,
\* Ok(<<response>>) for a row, Err for a row that cannot be decoded (a NULL
\* column under a "!" override, a status out of range, a bad header).
get_saved_response(table, idempotency_key, user_id) ==
    LET rows == RowsOf(table, user_id, idempotency_key) IN
    IF rows = {} THEN Ok(NULL)
    ELSE LET r == CHOOSE row \in rows : TRUE IN
         IF r.response_status_code = NULL \/ r.response_headers = NULL
               \/ r.response_body = NULL
         THEN Err("ColumnDecode")
         ELSE LET u16 == TryIntoU16(r.response_status_code[1]) IN
              IF ~u16.ok THEN u16
              ELSE LET status_code == StatusCodeFromU16(u16.value) IN
                   IF ~status_code.ok THEN status_code
                   ELSE LET headers == LoadHeaders(EmptyHeaderMap, r.response_headers[1]) IN
                        IF ~headers.ok THEN headers
                        ELSE Ok(Some(Response(status_code.value, headers.value,
                                              r.response_body[1])))

\* ------------------------------------------------------------------- inputs

Users == {"u1", "u2"}

\* IdempotencyKey::try_from: non-empty, bounded length, restricted characters.
IdempotencyKeyMaxLength == 50
IdempotencyKeyChars == {"a", "b"}
IdempotencyKeyTryFrom(s) ==
    IF s = <<>> THEN Err("The idempotency key cannot be empty")
    ELSE IF Len(s) > IdempotencyKeyMaxLength THEN Err("The idempotency key is too long")
    ELSE IF \E i \in 1..Len(s) : s[i] \notin IdempotencyKeyChars
         THEN Err("The idempotency key holds a forbidden character")
    ELSE Ok(s)

\* Idempotency keys as the client sends them, character by character.
LongKey == [i \in 1..(IdempotencyKeyMaxLength + 1) |-> "a"]
KeyInputs == {<<"a">>, <<"b">>, <<>>, <<"a", "!">>, LongKey}

\* The publish forms the model submits: who asks, with which key.
Form(user_id, key) == [user_id |-> user_id, idempotency_key |-> key]
PublishInputs ==
    {Form("u1", <<"a">>), Form("u1", <<"b">>), Form("u2", <<"a">>),
     Form("u1", <<>>), Form("u2", <<"a", "!">>), Form("u1", LongKey)}

\* Stored subscriber addresses, character by character.
Ursula == <<"u", "@", "d">>
Bob == <<"b", "@", "d">>
NotAnEmail == <<"n", "d">>
Emails == {Ursula, NotAnEmail}

\* SubscriberEmail::parse: a local part, one "@", a domain.
SubscriberEmailParse(s) ==
    LET ats == {i \in 1..Len(s) : s[i] = "@"} IN
    IF Cardinality(ats) = 1 /\ 1 \notin ats /\ Len(s) \notin ats
    THEN Ok(s) ELSE Err("not a valid subscriber email")

\* SubscriberName::parse: not empty, none of the forbidden characters.
ForbiddenNameChars == {"<", ">"}
SubscriberNameParse(s) ==
    IF s = <<>> \/ \E i \in 1..Len(s) : s[i] \in ForbiddenNameChars
    THEN Err("not a valid subscriber name") ELSE Ok(s)

\* The subscribe form: name, email, and the verdict Turnstile gives on its
\* cf-turnstile-response.
SubscribeForm(name, email, turnstile) == [name |-> name, email |-> email, turnstile |-> turnstile]
SubscribeInputs ==
    {SubscribeForm(<<"a">>, Ursula, TRUE), SubscribeForm(<<"a">>, Bob, TRUE),
     SubscribeForm(<<>>, Ursula, TRUE), SubscribeForm(<<"a">>, NotAnEmail, TRUE),
     SubscribeForm(<<"a">>, <<>>, TRUE), SubscribeForm(<<"a">>, Ursula, FALSE),
     SubscribeForm(<<>>, Bob, FALSE)}

\* e400, e500: the bare status code as a response.
e400 == Response(BAD_REQUEST, EmptyHeaderMap, <<>>)
e500 == Response(INTERNAL_SERVER_ERROR, EmptyHeaderMap, <<>>)

\* Redirect::to("/admin/newsletters").into_response()
AdminNewsletters ==
    <<47, 97, 100, 109, 105, 110, 47, 110, 101, 119, 115, 108, 101, 116, 116, 101, 114, 115>>
RedirectToAdminNewsletters ==
    Response(SEE_OTHER, HeaderMapAppend(EmptyHeaderMap, "location", AdminNewsletters), <<>>)

\* Redirect::to of the subscribe handler: "/?subscribed=true",
\* "/?error=validation", "/?error=captcha", "/?error=server".
Subscribed == <<47, 63, 115, 117, 98, 115, 99, 114, 105, 98, 101, 100, 61, 116, 114, 117, 101>>
ErrorValidation ==
    <<47, 63, 101, 114, 114, 111, 114, 61, 118, 97, 108, 105, 100, 97, 116, 105, 111, 110>>
ErrorCaptcha == <<47, 63, 101, 114, 114, 111, 114, 61, 99, 97, 112, 116, 99, 104, 97>>
ErrorServer == <<47, 63, 101, 114, 114, 111, 114, 61, 115, 101, 114, 118, 101, 114>>
RedirectTo(location) ==
    Response(SEE_OTHER, HeaderMapAppend(EmptyHeaderMap, "location", location), <<>>)

\* -------------------------------------------------------------------- state

VARIABLES
    idempotency,            \* committed rows of table idempotency
    newsletter_issues,      \* committed rows of table newsletter_issues
    issue_delivery_queue,   \* committed rows of table issue_delivery_queue
    subscriptions,          \* committed table subscriptions: email -> status
    writer,                 \* the request whose transaction holds the write lock, or 0
    request,                \* per publish request: position, inputs, open transaction, response
    worker,                 \* per try_execute_task execution: position, dequeued task
    returned,               \* the latest return of try_execute_task: outcome, and why
    claimed,                \* history: how many dequeue_task calls returned each row
    sent,                   \* history: how many send_email calls were made per (issue, address)
    n_completed,            \* dispatch_all_pending_emails: TaskCompleted outcomes seen
    dispatch,               \* dispatch_all_pending_emails: position
    subscription_tokens,    \* committed rows of table subscription_tokens
    subscriber,             \* per subscribe request: position, form, open transaction, response
    confirmation_emails,    \* history: how many confirmation emails were sent per token
    visited,                \* history: the confirmation links that were followed
    loop,                   \* worker_loop: position, and the seconds of the sleep it is in
    rt                      \* save/load round trip: position, response saved, response loaded

dbVars == <<idempotency, newsletter_issues, issue_delivery_queue, subscriptions>>
histVars == <<claimed, sent>>
dispatchVars == <<n_completed, dispatch, loop>>
subscribeVars == <<subscription_tokens, subscriber, confirmation_emails, visited>>
vars == <<idempotency, newsletter_issues, issue_delivery_queue, subscriptions, writer,
          request, worker, returned, claimed, sent, n_completed, dispatch, loop,
          subscription_tokens, subscriber, confirmation_emails, visited, rt>>

Requests == 1..MaxRequests
Workers == 1..NumWorkers

\* A transaction's uncommitted writes.
EmptyTx == [open |-> FALSE, idempotency |-> {}, newsletter_issues |-> {},
            issue_delivery_queue |-> {}]

IdleRequest ==
    [pc |-> "idle", user_id |-> "", idempotency_key |-> <<>>, tx |-> EmptyTx,
     path |-> "", error |-> "", fault |-> FALSE, response |-> NULL, after |-> {}]

IdleWorker == [pc |-> "dequeue_task", task |-> NULL]

Bump(bag, x) ==
    IF x \in DOMAIN bag THEN [bag EXCEPT ![x] = @ + 1] ELSE bag @@ (x :> 1)

Subscribes == 1..MaxSubscribes

\* A subscribe transaction's uncommitted writes.
EmptySubscribeTx == [open |-> FALSE, subscriptions |-> <<>>, subscription_tokens |-> {}]

IdleSubscriber ==
    [pc |-> "idle", form |-> NULL, name |-> <<>>, email |-> <<>>, tx |-> EmptySubscribeTx,
     error |-> "", fault |-> "", response |-> NULL]

InitSubscribe ==
    /\ subscription_tokens = {}
    /\ subscriber = [s \in Subscribes |-> IdleSubscriber]
    /\ confirmation_emails = <<>>
    /\ visited = {}

InitDb ==
    /\ idempotency = {}
    /\ newsletter_issues = {}
    /\ issue_delivery_queue = {}
    /\ subscriptions \in [Emails -> {"confirmed", "pending_confirmation"}]
    /\ writer = 0

InitRest ==
    /\ request = [r \in Requests |-> IdleRequest]
    /\ worker = [w \in Workers |-> IdleWorker]
    /\ returned = [outcome |-> "", detail |-> ""]
    /\ claimed = <<>>
    /\ sent = <<>>
    /\ n_completed = 0
    /\ dispatch = "publish"
    /\ loop = [pc |-> "try_execute_task", secs |-> 0]
    /\ InitSubscribe
    /\ rt = [pc |-> "off", saved |-> NULL, loaded |-> NULL]

Init == InitDb /\ InitRest

\* ------------------------------------------------------- publish_newsletter

\* The handler returns: the response goes out and the transaction, if it was
\* not committed, is dropped (rolled back).  `fault` tells an error the storage
\* raised from one the code raised itself.
Finish(r, response, error, fault) ==
    [request[r] EXCEPT !.pc = "done", !.tx = EmptyTx, !.response = Some(response),
                       !.error = error, !.fault = fault]

\* Requests with this user and key that had already been answered when a
\* request arrives (history: it orders the requests of one key).
AnsweredBefore(user_id, idempotency_key) ==
    {q \in Requests : /\ request[q].pc = "done"
                      /\ request[q].path # "rejected"
                      /\ request[q].user_id = user_id
                      /\ request[q].idempotency_key = idempotency_key}

\* The handler's first line: a key that fails validation is answered with
\* e400 before anything else happens.
publish_newsletter_unvalidated(r, user_id, form_idempotency_key) ==
    /\ request[r].pc = "idle"
    /\ \A q \in Requests : q < r => request[q].pc # "idle"
    /\ request' = [request EXCEPT ![r] =
            [@ EXCEPT !.pc = "try_processing", !.user_id = user_id,
                      !.idempotency_key = form_idempotency_key,
                      !.after = AnsweredBefore(user_id, form_idempotency_key)]]
    /\ UNCHANGED <<dbVars, writer, worker, returned, histVars, dispatchVars, subscribeVars, rt>>

publish_newsletter(r, user_id, form_idempotency_key) ==
    /\ request[r].pc = "idle"
    /\ \A q \in Requests : q < r => request[q].pc # "idle"
    /\ LET idempotency_key == IdempotencyKeyTryFrom(form_idempotency_key) IN
       request' = [request EXCEPT ![r] =
            IF idempotency_key.ok
            THEN [@ EXCEPT !.pc = "try_processing", !.user_id = user_id,
                           !.idempotency_key = idempotency_key.value,
                           !.after = AnsweredBefore(user_id, idempotency_key.value)]
            ELSE [@ EXCEPT !.pc = "done", !.path = "rejected", !.response = Some(e400)]]
    /\ UNCHANGED <<dbVars, writer, worker, returned, histVars, dispatchVars, subscribeVars, rt>>

\* INSERT INTO idempotency ... ON CONFLICT DO NOTHING: rows_affected().
n_inserted_rows_no_conflict_clause(table, user_id, idempotency_key) == 1

n_inserted_rows_key_only(table, user_id, idempotency_key) ==
    IF {row \in table : row.idempotency_key = idempotency_key} = {} THEN 1 ELSE 0

\* The table's unique key is (user_uuid, idempotency_key): the insert
\* conflicts with a row of the same user and key, and with no other.
UniqueKey(row) == <<row.user_uuid, row.idempotency_key>>

n_inserted_rows(table, user_id, idempotency_key) ==
    IF {row \in table : UniqueKey(row) = <<user_id, idempotency_key>>} = {} THEN 1 ELSE 0

\* try_processing up to its branch: BEGIN, then the reservation insert, which
\* takes the write lock (and waits while another transaction holds it).
try_processing_unserialized(r, fail) ==
    /\ request[r].pc = "try_processing"
    /\ IF fail
       THEN /\ request' = [request EXCEPT ![r] = Finish(r, e500, "try_processing", TRUE)]
            /\ UNCHANGED writer
       ELSE /\ writer' = r
            /\ LET me == request[r]
                   n == n_inserted_rows(idempotency, me.user_id, me.idempotency_key)
               IN request' = [request EXCEPT ![r] =
                    IF n > 0
                    THEN [@ EXCEPT !.pc = "insert_newsletter_issue",
                                   !.path = "StartProcessing",
                                   !.tx = [EmptyTx EXCEPT !.open = TRUE,
                                             !.idempotency =
                                                {ReservedRow(me.user_id, me.idempotency_key)}]]
                    ELSE [@ EXCEPT !.pc = "get_saved_response",
                                   !.path = "ReturnSavedResponse",
                                   !.tx = [EmptyTx EXCEPT !.open = TRUE]]]
    /\ UNCHANGED <<dbVars, worker, returned, histVars, dispatchVars, subscribeVars, rt>>

try_processing_read_uncommitted(r, fail) ==
    /\ request[r].pc = "try_processing"
    /\ IF fail
       THEN /\ request' = [request EXCEPT ![r] = Finish(r, e500, "try_processing", TRUE)]
            /\ UNCHANGED writer
       ELSE LET me == request[r]
                visible == idempotency \cup
                            UNION {request[q].tx.idempotency : q \in Requests \ {r}}
                n == n_inserted_rows(visible, me.user_id, me.idempotency_key)
            IN IF n > 0
               THEN /\ writer = 0
                    /\ writer' = r
                    /\ request' = [request EXCEPT ![r] =
                            [@ EXCEPT !.pc = "insert_newsletter_issue",
                                      !.path = "StartProcessing",
                                      !.tx = [EmptyTx EXCEPT !.open = TRUE,
                                                !.idempotency =
                                                    {ReservedRow(me.user_id, me.idempotency_key)}]]]
               ELSE /\ UNCHANGED writer
                    /\ request' = [request EXCEPT ![r] =
                            [@ EXCEPT !.pc = "get_saved_response",
                                      !.path = "ReturnSavedResponse",
                                      !.tx = [EmptyTx EXCEPT !.open = TRUE]]]
    /\ UNCHANGED <<dbVars, worker, returned, histVars, dispatchVars, subscribeVars, rt>>

try_processing_on_pool(r, fail) ==
    /\ request[r].pc = "try_processing"
    /\ IF fail
       THEN /\ request' = [request EXCEPT ![r] = Finish(r, e500, "try_processing", TRUE)]
            /\ UNCHANGED <<writer, idempotency>>
       ELSE /\ writer = 0
            /\ writer' = r
            /\ LET me == request[r]
                   n == n_inserted_rows(idempotency, me.user_id, me.idempotency_key)
               IN /\ request' = [request EXCEPT ![r] =
                        IF n > 0
                        THEN [@ EXCEPT !.pc = "insert_newsletter_issue",
                                       !.path = "StartProcessing",
                                       !.tx = [EmptyTx EXCEPT !.open = TRUE]]
                        ELSE [@ EXCEPT !.pc = "get_saved_response",
                                       !.path = "ReturnSavedResponse",
                                       !.tx = [EmptyTx EXCEPT !.open = TRUE]]]
                  /\ idempotency' =
                        IF n > 0
                        THEN idempotency \cup {ReservedRow(me.user_id, me.idempotency_key)}
                        ELSE idempotency
    /\ UNCHANGED <<newsletter_issues, issue_delivery_queue, subscriptions, worker, returned,
                   histVars, dispatchVars, subscribeVars, rt>>

try_processing(r, fail) ==
    /\ request[r].pc = "try_processing"
    /\ IF fail
       THEN /\ request' = [request EXCEPT ![r] = Finish(r, e500, "try_processing", TRUE)]
            /\ UNCHANGED writer
       ELSE /\ writer = 0
            /\ writer' = r
            /\ LET me == request[r]
                   n == n_inserted_rows(idempotency, me.user_id, me.idempotency_key)
               IN request' = [request EXCEPT ![r] =
                    IF n > 0
                    THEN [@ EXCEPT !.pc = "insert_newsletter_issue",
                                   !.path = "StartProcessing",
                                   !.tx = [EmptyTx EXCEPT !.open = TRUE,
                                             !.idempotency =
                                                {ReservedRow(me.user_id, me.idempotency_key)}]]
                    ELSE [@ EXCEPT !.pc = "get_saved_response",
                                   !.path = "ReturnSavedResponse",
                                   !.tx = [EmptyTx EXCEPT !.open = TRUE]]]
    /\ UNCHANGED <<dbVars, worker, returned, histVars, dispatchVars, subscribeVars, rt>>

return_saved_response_evict(r, fail) ==
    /\ request[r].pc = "get_saved_response"
    /\ LET me == request[r]
           saved_response == get_saved_response(idempotency, me.idempotency_key, me.user_id)
       IN /\ request' = [request EXCEPT ![r] =
                IF fail THEN Finish(r, e500, "get_saved_response", TRUE)
                ELSE IF ~saved_response.ok
                THEN Finish(r, e500, "get_saved_response", FALSE)
                ELSE IF saved_response.value = NULL
                THEN Finish(r, e500, "We expected a saved response, we didn't find it", FALSE)
                ELSE Finish(r, saved_response.value[1], "", FALSE)]
          /\ idempotency' =
                IF fail THEN idempotency
                ELSE idempotency \ RowsOf(idempotency, me.user_id, me.idempotency_key)
    /\ writer' = 0
    /\ UNCHANGED <<newsletter_issues, issue_delivery_queue, subscriptions, worker, returned,
                   histVars, dispatchVars, subscribeVars, rt>>

return_saved_response_reenqueue(r, fail) ==
    /\ request[r].pc = "get_saved_response"
    /\ LET me == request[r]
           saved_response == get_saved_response(idempotency, me.idempotency_key, me.user_id)
       IN /\ request' = [request EXCEPT ![r] =
                IF fail THEN Finish(r, e500, "get_saved_response", TRUE)
                ELSE IF ~saved_response.ok
                THEN Finish(r, e500, "get_saved_response", FALSE)
                ELSE IF saved_response.value = NULL
                THEN Finish(r, e500, "We expected a saved response, we didn't find it", FALSE)
                ELSE Finish(r, saved_response.value[1], "", FALSE)]
          /\ issue_delivery_queue' =
                IF ~fail /\ saved_response.ok /\ saved_response.value # NULL
                THEN issue_delivery_queue \cup
                        {[newsletter_issue_uuid |-> r, subscriber_email |-> e] :
                            e \in {x \in DOMAIN subscriptions : subscriptions[x] = "confirmed"}}
                ELSE issue_delivery_queue
    /\ writer' = 0
    /\ UNCHANGED <<idempotency, newsletter_issues, subscriptions, worker, returned,
                   histVars, dispatchVars, subscribeVars, rt>>

return_saved_response_resend(r, fail) ==
    /\ request[r].pc = "get_saved_response"
    /\ LET me == request[r]
           saved_response == get_saved_response(idempotency, me.idempotency_key, me.user_id)
           first == {p \in Requests : /\ request[p].pc = "done"
                                      /\ request[p].path = "StartProcessing"
                                      /\ request[p].error = ""
                                      /\ request[p].user_id = me.user_id
                                      /\ request[p].idempotency_key = me.idempotency_key}
       IN /\ request' = [request EXCEPT ![r] =
                IF fail THEN Finish(r, e500, "get_saved_response", TRUE)
                ELSE IF ~saved_response.ok
                THEN Finish(r, e500, "get_saved_response", FALSE)
                ELSE IF saved_response.value = NULL
                THEN Finish(r, e500, "We expected a saved response, we didn't find it", FALSE)
                ELSE Finish(r, saved_response.value[1], "", FALSE)]
          /\ issue_delivery_queue' =
                IF ~fail /\ saved_response.ok /\ saved_response.value # NULL
                THEN issue_delivery_queue \cup
                        {[newsletter_issue_uuid |-> p, subscriber_email |-> e] :
                            p \in first,
                            e \in {x \in DOMAIN subscriptions : subscriptions[x] = "confirmed"}}
                ELSE issue_delivery_queue
    /\ writer' = 0
    /\ UNCHANGED <<idempotency, newsletter_issues, subscriptions, worker, returned,
                   histVars, dispatchVars, subscribeVars, rt>>

return_saved_response_retry(r, fail) ==
    /\ request[r].pc = "get_saved_response"
    /\ LET me == request[r]
           saved_response == get_saved_response(idempotency, me.idempotency_key, me.user_id)
       IN IF fail
          THEN /\ request' = [request EXCEPT ![r] = Finish(r, e500, "get_saved_response", TRUE)]
               /\ writer' = 0
          ELSE IF ~saved_response.ok \/ saved_response.value = NULL
          THEN /\ request' = [request EXCEPT ![r] =
                        [@ EXCEPT !.pc = "insert_newsletter_issue",
                                  !.path = "StartProcessing"]]
               /\ UNCHANGED writer
          ELSE /\ request' = [request EXCEPT ![r] =
                        Finish(r, saved_response.value[1], "", FALSE)]
               /\ writer' = 0
    /\ UNCHANGED <<dbVars, worker, returned, histVars, dispatchVars, subscribeVars, rt>>

return_saved_response_republish(r, fail) ==
    /\ request[r].pc = "get_saved_response"
    /\ LET me == request[r]
           saved_response == get_saved_response(idempotency, me.idempotency_key, me.user_id)
       IN /\ request' = [request EXCEPT ![r] =
                IF fail THEN Finish(r, e500, "get_saved_response", TRUE)
                ELSE IF ~saved_response.ok
                THEN Finish(r, e500, "get_saved_response", FALSE)
                ELSE IF saved_response.value = NULL
                THEN Finish(r, e500, "We expected a saved response, we didn't find it", FALSE)
                ELSE Finish(r, saved_response.value[1], "", FALSE)]
          /\ newsletter_issues' =
                IF ~fail /\ saved_response.ok /\ saved_response.value # NULL
                THEN newsletter_issues \cup {[newsletter_issue_uuid |-> r, title |-> "title"]}
                ELSE newsletter_issues
    /\ writer' = 0
    /\ UNCHANGED <<idempotency, issue_delivery_queue, subscriptions, worker, returned,
                   histVars, dispatchVars, subscribeVars, rt>>

\* try_processing's else branch and the handler's ReturnSavedResponse arm: the
\* lookup runs on the pool (it sees committed rows only); the transaction is
\* dropped, which rolls it back.
return_saved_response(r, fail) ==
    /\ request[r].pc = "get_saved_response"
    /\ LET me == request[r]
           saved_response == get_saved_response(idempotency, me.idempotency_key, me.user_id)
       IN request' = [request EXCEPT ![r] =
            IF fail THEN Finish(r, e500, "get_saved_response", TRUE)
            ELSE IF ~saved_response.ok
            THEN Finish(r, e500, "get_saved_response", FALSE)
            ELSE IF saved_response.value = NULL
            THEN Finish(r, e500, "We expected a saved response, we didn't find it", FALSE)
            ELSE Finish(r, saved_response.value[1], "", FALSE)]
    /\ writer' = 0
    /\ UNCHANGED <<dbVars, worker, returned, histVars, dispatchVars, subscribeVars, rt>>

\* The issue's id: Uuid::new_v4(), fresh for each call; a request makes at most
\* one call, so the request's own number stands for it.
NewsletterIssue(r) == [newsletter_issue_uuid |-> r, title |-> "title"]

insert_newsletter_issue_on_pool(r, fail) ==
    /\ request[r].pc = "insert_newsletter_issue"
    /\ IF fail
       THEN /\ request' = [request EXCEPT ![r] =
                    Finish(r, e500, "Failed to store newsletter issue details", TRUE)]
            /\ writer' = 0
            /\ UNCHANGED newsletter_issues
       ELSE /\ request' = [request EXCEPT ![r].pc = "enqueue_delivery_tasks"]
            /\ newsletter_issues' = newsletter_issues \cup {NewsletterIssue(r)}
            /\ UNCHANGED writer
    /\ UNCHANGED <<idempotency, issue_delivery_queue, subscriptions, worker, returned,
                   histVars, dispatchVars, subscribeVars, rt>>

insert_newsletter_issue(r, fail) ==
    /\ request[r].pc = "insert_newsletter_issue"
    /\ IF fail
       THEN /\ request' = [request EXCEPT ![r] =
                    Finish(r, e500, "Failed to store newsletter issue details", TRUE)]
            /\ writer' = 0
       ELSE /\ request' = [request EXCEPT ![r].pc = "enqueue_delivery_tasks",
                                           ![r].tx.newsletter_issues =
                                                @ \cup {NewsletterIssue(r)}]
            /\ UNCHANGED writer
    /\ UNCHANGED <<dbVars, worker, returned, histVars, dispatchVars, subscribeVars, rt>>

\* INSERT INTO issue_delivery_queue SELECT $1, email FROM subscriptions
\* WHERE status = 'confirmed'
DeliveryTasksOfEverySubscriber(issue_id) ==
    {[newsletter_issue_uuid |-> issue_id, subscriber_email |-> email] :
        email \in DOMAIN subscriptions}

DeliveryTasks(issue_id) ==
    {[newsletter_issue_uuid |-> issue_id, subscriber_email |-> email] :
        email \in {e \in DOMAIN subscriptions : subscriptions[e] = "confirmed"}}

enqueue_delivery_tasks_on_pool(r, fail) ==
    /\ request[r].pc = "enqueue_delivery_tasks"
    /\ IF fail
       THEN /\ request' = [request EXCEPT ![r] =
                    Finish(r, e500, "Failed to enqueue delivery tasks", TRUE)]
            /\ writer' = 0
            /\ UNCHANGED issue_delivery_queue
       ELSE /\ request' = [request EXCEPT ![r].pc = "save_response"]
            /\ issue_delivery_queue' = issue_delivery_queue \cup DeliveryTasks(r)
            /\ UNCHANGED writer
    /\ UNCHANGED <<idempotency, newsletter_issues, subscriptions, worker, returned,
                   histVars, dispatchVars, subscribeVars, rt>>

enqueue_delivery_tasks_needs_a_subscriber(r, fail) ==
    /\ request[r].pc = "enqueue_delivery_tasks"
    /\ IF fail
       THEN /\ request' = [request EXCEPT ![r] =
                    Finish(r, e500, "Failed to enqueue delivery tasks", TRUE)]
            /\ writer' = 0
       ELSE IF DeliveryTasks(r) = {}
       THEN /\ request' = [request EXCEPT ![r] =
                    Finish(r, e500, "Failed to enqueue delivery tasks", FALSE)]
            /\ writer' = 0
       ELSE /\ request' = [request EXCEPT ![r].pc = "save_response",
                                           ![r].tx.issue_delivery_queue =
                                                @ \cup DeliveryTasks(r)]
            /\ UNCHANGED writer
    /\ UNCHANGED <<dbVars, worker, returned, histVars, dispatchVars, subscribeVars, rt>>

enqueue_delivery_tasks(r, fail) ==
    /\ request[r].pc = "enqueue_delivery_tasks"
    /\ IF fail
       THEN /\ request' = [request EXCEPT ![r] =
                    Finish(r, e500, "Failed to enqueue delivery tasks", TRUE)]
            /\ writer' = 0
       ELSE /\ request' = [request EXCEPT ![r].pc = "save_response",
                                           ![r].tx.issue_delivery_queue =
                                                @ \cup DeliveryTasks(r)]
            /\ UNCHANGED writer
    /\ UNCHANGED <<dbVars, worker, returned, histVars, dispatchVars, subscribeVars, rt>>

\* UPDATE idempotency SET response_* WHERE user_uuid = $1 AND idempotency_key = $2,
\* on the rows the transaction sees.
UpdateNothing(rows, user_id, idempotency_key, http_response) == rows

UpdateIdempotency(rows, user_id, idempotency_key, http_response) ==
    IF RowsOf(rows, user_id, idempotency_key) = {} THEN rows
    ELSE (rows \ RowsOf(rows, user_id, idempotency_key))
            \cup {SavedRow(user_id, idempotency_key, http_response)}

save_response_commit_first(r, fail) ==
    /\ request[r].pc = "save_response"
    /\ LET me == request[r]
           http_response == RedirectToAdminNewsletters
       IN /\ idempotency' =
                IF fail THEN idempotency \cup me.tx.idempotency
                ELSE UpdateIdempotency(idempotency \cup me.tx.idempotency,
                                       me.user_id, me.idempotency_key, http_response)
          /\ newsletter_issues' = newsletter_issues \cup me.tx.newsletter_issues
          /\ issue_delivery_queue' = issue_delivery_queue \cup me.tx.issue_delivery_queue
          /\ request' = [request EXCEPT ![r] =
                IF fail THEN Finish(r, e500, "save_response", TRUE)
                ELSE Finish(r, http_response, "", FALSE)]
    /\ writer' = 0
    /\ UNCHANGED <<subscriptions, worker, returned, histVars, dispatchVars, subscribeVars, rt>>

\* save_response: the UPDATE, then the commit of everything the transaction
\* wrote, then the response handed back as it came in.
save_response(r, fail) ==
    /\ request[r].pc = "save_response"
    /\ LET me == request[r]
           http_response == RedirectToAdminNewsletters
       IN IF fail
          THEN /\ request' = [request EXCEPT ![r] = Finish(r, e500, "save_response", TRUE)]
               /\ UNCHANGED <<idempotency, newsletter_issues, issue_delivery_queue>>
          ELSE /\ idempotency' = UpdateIdempotency(idempotency \cup me.tx.idempotency,
                                       me.user_id, me.idempotency_key, http_response)
               /\ newsletter_issues' = newsletter_issues \cup me.tx.newsletter_issues
               /\ issue_delivery_queue' =
                        issue_delivery_queue \cup me.tx.issue_delivery_queue
               /\ request' = [request EXCEPT ![r] = Finish(r, http_response, "", FALSE)]
    /\ writer' = 0
    /\ UNCHANGED <<subscriptions, worker, returned, histVars, dispatchVars, subscribeVars, rt>>

\* --------------------------------------------------------- try_execute_task

\* What a try_execute_task execution hands back to its caller.
Return(w, outcome, detail) == [outcome |-> outcome, detail |-> detail]

\* DELETE FROM issue_delivery_queue WHERE rowid IN (SELECT rowid ... LIMIT 1)
\* RETURNING ...: one statement, committed on its own; which row is arbitrary.
SelectOnly(queue, row) == queue

DeleteEveryTaskOfIssue(queue, row) ==
    {task \in queue : task.newsletter_issue_uuid # row.newsletter_issue_uuid}

DeleteReturning(queue, row) == queue \ {row}

dequeue_task_read_uncommitted(w, fail) ==
    /\ worker[w].pc = "dequeue_task"
    /\ LET visible == issue_delivery_queue \cup
                        UNION {request[r].tx.issue_delivery_queue : r \in Requests}
       IN IF fail
          THEN /\ returned' = Return(w, "Err", "dequeue_task")
               /\ UNCHANGED <<issue_delivery_queue, claimed, worker>>
          ELSE IF visible = {}
          THEN /\ returned' = Return(w, "EmptyQueue", "")
               /\ UNCHANGED <<issue_delivery_queue, claimed, worker>>
          ELSE \E row \in visible :
               /\ issue_delivery_queue' = DeleteReturning(issue_delivery_queue, row)
               /\ claimed' = Bump(claimed, row)
               /\ worker' = [worker EXCEPT ![w] = [pc |-> "parse", task |-> Some(row)]]
               /\ UNCHANGED returned
    /\ UNCHANGED <<idempotency, newsletter_issues, subscriptions, writer, request, sent,
                   dispatchVars, subscribeVars, rt>>

dequeue_task(w, fail) ==
    /\ worker[w].pc = "dequeue_task"
    /\ IF fail
       THEN /\ returned' = Return(w, "Err", "dequeue_task")
            /\ UNCHANGED <<issue_delivery_queue, claimed, worker>>
       ELSE /\ writer = 0
            /\ IF issue_delivery_queue = {}
               THEN /\ returned' = Return(w, "EmptyQueue", "")
                    /\ UNCHANGED <<issue_delivery_queue, claimed, worker>>
               ELSE \E row \in issue_delivery_queue :
                    /\ issue_delivery_queue' = DeleteReturning(issue_delivery_queue, row)
                    /\ claimed' = Bump(claimed, row)
                    /\ worker' = [worker EXCEPT ![w] = [pc |-> "parse", task |-> Some(row)]]
                    /\ UNCHANGED returned
    /\ UNCHANGED <<idempotency, newsletter_issues, subscriptions, writer, request, sent,
                   dispatchVars, subscribeVars, rt>>

\* get_issue: fetch_one on the committed table; no row is an error.
get_issue(issues, issue_id) ==
    LET found == {i \in issues : i.newsletter_issue_uuid = issue_id} IN
    IF found = {} THEN Err("RowNotFound") ELSE Ok(CHOOSE i \in found : TRUE)

\* SubscriberEmail::parse of the dequeued address, and for a valid one the
\* load of the issue.
parse_and_get_issue_requeue_on_miss(w, fail) ==
    /\ worker[w].pc = "parse"
    /\ LET task == worker[w].task[1]
           email == SubscriberEmailParse(task.subscriber_email)
           issue == get_issue(newsletter_issues, task.newsletter_issue_uuid)
       IN IF ~email.ok
          THEN /\ returned' = Return(w, "TaskCompleted", "invalid_email")
               /\ worker' = [worker EXCEPT ![w] = IdleWorker]
               /\ UNCHANGED issue_delivery_queue
          ELSE IF fail \/ ~issue.ok
          THEN /\ returned' = Return(w, "Err", "get_issue")
               /\ worker' = [worker EXCEPT ![w] = IdleWorker]
               /\ issue_delivery_queue' = issue_delivery_queue \cup {task}
          ELSE /\ worker' = [worker EXCEPT ![w].pc = "send_email"]
               /\ UNCHANGED <<returned, issue_delivery_queue>>
    /\ UNCHANGED <<idempotency, newsletter_issues, subscriptions, writer, request, histVars,
                   dispatchVars, subscribeVars, rt>>

parse_and_get_issue_retry_invalid(w, fail) ==
    /\ worker[w].pc = "parse"
    /\ LET task == worker[w].task[1]
           email == SubscriberEmailParse(task.subscriber_email)
           issue == get_issue(newsletter_issues, task.newsletter_issue_uuid)
       IN IF ~email.ok
          THEN /\ returned' = Return(w, "Err", "invalid_email")
               /\ worker' = [worker EXCEPT ![w] = IdleWorker]
               /\ issue_delivery_queue' = issue_delivery_queue \cup {task}
          ELSE IF fail \/ ~issue.ok
          THEN /\ returned' = Return(w, "Err", "get_issue")
               /\ worker' = [worker EXCEPT ![w] = IdleWorker]
               /\ UNCHANGED issue_delivery_queue
          ELSE /\ worker' = [worker EXCEPT ![w].pc = "send_email"]
               /\ UNCHANGED <<returned, issue_delivery_queue>>
    /\ UNCHANGED <<idempotency, newsletter_issues, subscriptions, writer, request, histVars,
                   dispatchVars, subscribeVars, rt>>

parse_and_get_issue(w, fail) ==
    /\ worker[w].pc = "parse"
    /\ LET task == worker[w].task[1]
           email == SubscriberEmailParse(task.subscriber_email)
           issue == get_issue(newsletter_issues, task.newsletter_issue_uuid)
       IN IF ~email.ok
          THEN /\ returned' = Return(w, "TaskCompleted", "invalid_email")
               /\ worker' = [worker EXCEPT ![w] = IdleWorker]
          ELSE IF fail \/ ~issue.ok
          THEN /\ returned' = Return(w, "Err", "get_issue")
               /\ worker' = [worker EXCEPT ![w] = IdleWorker]
          ELSE /\ worker' = [worker EXCEPT ![w].pc = "send_email"]
               /\ UNCHANGED returned
    /\ UNCHANGED <<dbVars, writer, request, histVars, dispatchVars, subscribeVars, rt>>

\* email_client.send_email: either result is logged at most, and the attempt
\* ends TaskCompleted.
send_email_propagate(w, delivered) ==
    /\ worker[w].pc = "send_email"
    /\ sent' = Bump(sent, worker[w].task[1])
    /\ returned' = Return(w, IF delivered THEN "TaskCompleted" ELSE "Err",
                           IF delivered THEN "sent" ELSE "send_failed")
    /\ worker' = [worker EXCEPT ![w] = IdleWorker]
    /\ UNCHANGED <<dbVars, writer, request, claimed, dispatchVars, subscribeVars, rt>>

send_email_requeue(w, delivered) ==
    /\ worker[w].pc = "send_email"
    /\ sent' = Bump(sent, worker[w].task[1])
    /\ returned' = Return(w, IF delivered THEN "TaskCompleted" ELSE "Err",
                           IF delivered THEN "sent" ELSE "send_failed")
    /\ worker' = [worker EXCEPT ![w] = IdleWorker]
    /\ issue_delivery_queue' =
            IF delivered THEN issue_delivery_queue
            ELSE issue_delivery_queue \cup {worker[w].task[1]}
    /\ UNCHANGED <<idempotency, newsletter_issues, subscriptions, writer, request, claimed,
                   dispatchVars, subscribeVars, rt>>

send_email(w, delivered) ==
    /\ worker[w].pc = "send_email"
    /\ sent' = Bump(sent, worker[w].task[1])
    /\ returned' = Return(w, "TaskCompleted", IF delivered THEN "sent" ELSE "send_failed")
    /\ worker' = [worker EXCEPT ![w] = IdleWorker]
    /\ UNCHANGED <<dbVars, writer, request, claimed, dispatchVars, subscribeVars, rt>>

\* ---------------------------------------------------------- specification

\* The one worker_loop the process runs.
TheWorker == 1

Next ==
    \/ \E r \in Requests, form \in PublishInputs :
            publish_newsletter(r, form.user_id, form.idempotency_key)
    \/ \E r \in Requests, fail \in BOOLEAN : try_processing(r, fail)
    \/ \E r \in Requests, fail \in BOOLEAN : return_saved_response(r, fail)
    \/ \E r \in Requests, fail \in BOOLEAN : insert_newsletter_issue(r, fail)
    \/ \E r \in Requests, fail \in BOOLEAN : enqueue_delivery_tasks(r, fail)
    \/ \E r \in Requests, fail \in BOOLEAN : save_response(r, fail)
    \/ \E fail \in BOOLEAN : dequeue_task(TheWorker, fail)
    \/ \E fail \in BOOLEAN : parse_and_get_issue(TheWorker, fail)
    \/ \E delivered \in BOOLEAN : send_email(TheWorker, delivered)

Spec == Init /\ [][Next]_vars

FirstRequest == 1

\* Several try_execute_task executions side by side (the worker's own, and
\* those a caller such as dispatch_all_pending_emails makes), around one
\* publish that the storage does not fail.
NextWorkers ==
    \/ \E form \in PublishInputs :
            publish_newsletter(FirstRequest, form.user_id, form.idempotency_key)
    \/ try_processing(FirstRequest, FALSE)
    \/ insert_newsletter_issue(FirstRequest, FALSE)
    \/ enqueue_delivery_tasks(FirstRequest, FALSE)
    \/ save_response(FirstRequest, FALSE)
    \/ \E w \in Workers, fail \in BOOLEAN : dequeue_task(w, fail)
    \/ \E w \in Workers, fail \in BOOLEAN : parse_and_get_issue(w, fail)
    \/ \E w \in Workers, delivered \in BOOLEAN : send_email(w, delivered)

\* The worker specifications let a third subscriber be stored.
WorkerEmails == Emails \cup {Bob}

InitWorkers ==
    /\ idempotency = {}
    /\ newsletter_issues = {}
    /\ issue_delivery_queue = {}
    /\ subscriptions \in [WorkerEmails -> {"confirmed", "pending_confirmation"}]
    /\ writer = 0
    /\ InitRest

SpecWorkers == InitWorkers /\ [][NextWorkers]_vars

\* ------------------------------------------------- data-integrity faults

\* What the storage may hold when the process starts, besides nothing: an
\* idempotency record whose response columns are NULL (the row the reservation
\* insert writes, left without its completion), and a delivery task whose issue
\* is not in newsletter_issues.
PendingRecord == ReservedRow("u1", <<"a">>)
DanglingTask == [newsletter_issue_uuid |-> 0, subscriber_email |-> Ursula]

InitIntegrity ==
    /\ idempotency \in {{}, {PendingRecord}}
    /\ newsletter_issues = {}
    /\ issue_delivery_queue \in {{}, {DanglingTask}}
    /\ subscriptions \in [Emails -> {"confirmed", "pending_confirmation"}]
    /\ writer = 0
    /\ InitRest

\* The handler and the worker over such a storage; the storage answers every
\* statement but the load of an issue, which it may fail.
NextIntegrity ==
    \/ \E r \in Requests, form \in PublishInputs :
            publish_newsletter(r, form.user_id, form.idempotency_key)
    \/ \E r \in Requests : try_processing(r, FALSE)
    \/ \E r \in Requests : return_saved_response(r, FALSE)
    \/ \E r \in Requests : insert_newsletter_issue(r, FALSE)
    \/ \E r \in Requests : enqueue_delivery_tasks(r, FALSE)
    \/ \E r \in Requests : save_response(r, FALSE)
    \/ dequeue_task(TheWorker, FALSE)
    \/ \E fail \in BOOLEAN : parse_and_get_issue(TheWorker, fail)
    \/ \E delivered \in BOOLEAN : send_email(TheWorker, delivered)

SpecIntegrity == InitIntegrity /\ [][NextIntegrity]_vars

\* -------------------------------------------------------------- worker_loop

\* Duration::from_secs of the two sleeps.
EmptyQueueSleepSecs == 10
ErrSleepSecs == 1

\* The attempt worker_loop has called is running.
loop_attempt ==
    /\ loop.pc = "try_execute_task"
    /\ returned.outcome = ""
    /\ \/ \E fail \in BOOLEAN : dequeue_task(TheWorker, fail)
       \/ \E fail \in BOOLEAN : parse_and_get_issue(TheWorker, fail)
       \/ \E delivered \in BOOLEAN : send_email(TheWorker, delivered)

\* match try_execute_task(..).await { .. }: the arm taken for what the attempt
\* returned; after TaskCompleted the loop goes round at once.
worker_loop_return_on_err ==
    /\ loop.pc = "try_execute_task"
    /\ returned.outcome # ""
    /\ loop' = IF returned.outcome = "EmptyQueue"
               THEN [pc |-> "sleep", secs |-> EmptyQueueSleepSecs]
               ELSE IF returned.outcome = "Err"
               THEN [pc |-> "returned", secs |-> 0]
               ELSE [pc |-> "try_execute_task", secs |-> 0]
    /\ returned' = [outcome |-> "", detail |-> ""]
    /\ UNCHANGED <<dbVars, writer, request, worker, histVars, n_completed, dispatch, subscribeVars, rt>>

worker_loop_break_when_empty ==
    /\ loop.pc = "try_execute_task"
    /\ returned.outcome # ""
    /\ loop' = IF returned.outcome = "EmptyQueue"
               THEN [pc |-> "returned", secs |-> 0]
               ELSE IF returned.outcome = "Err"
               THEN [pc |-> "sleep", secs |-> ErrSleepSecs]
               ELSE [pc |-> "try_execute_task", secs |-> 0]
    /\ returned' = [outcome |-> "", detail |-> ""]
    /\ UNCHANGED <<dbVars, writer, request, worker, histVars, n_completed, dispatch, subscribeVars, rt>>

worker_loop ==
    /\ loop.pc = "try_execute_task"
    /\ returned.outcome # ""
    /\ loop' = IF returned.outcome = "EmptyQueue"
               THEN [pc |-> "sleep", secs |-> EmptyQueueSleepSecs]
               ELSE IF returned.outcome = "Err"
               THEN [pc |-> "sleep", secs |-> ErrSleepSecs]
               ELSE [pc |-> "try_execute_task", secs |-> 0]
    /\ returned' = [outcome |-> "", detail |-> ""]
    /\ UNCHANGED <<dbVars, writer, request, worker, histVars, n_completed, dispatch, subscribeVars, rt>>

\* tokio::time::sleep(..).await is over: round the loop again.
worker_loop_wake ==
    /\ loop.pc = "sleep"
    /\ loop' = [pc |-> "try_execute_task", secs |-> 0]
    /\ UNCHANGED <<dbVars, writer, request, worker, returned, histVars, n_completed,
                   dispatch, subscribeVars, rt>>

\* The worker loop beside one publish; the storage may fail the worker.
loop_publish ==
    \/ \E form \in PublishInputs :
            publish_newsletter(FirstRequest, form.user_id, form.idempotency_key)
    \/ try_processing(FirstRequest, FALSE)
    \/ insert_newsletter_issue(FirstRequest, FALSE)
    \/ enqueue_delivery_tasks(FirstRequest, FALSE)
    \/ save_response(FirstRequest, FALSE)

NextLoop ==
    \/ loop_publish
    \/ loop_attempt
    \/ worker_loop
    \/ worker_loop_wake

SpecLoop == InitWorkers /\ [][NextLoop]_vars

\* The runtime keeps polling the worker's future and every request's.
SpecLoopFair == SpecLoop /\ WF_vars(NextLoop)

\* ---------------------------------------------------------- subscribers

\* A subscriber follows the confirmation link: the stored status goes from
\* pending_confirmation to confirmed, in a statement of its own, which like
\* every write waits for the write lock.
confirm(email) ==
    /\ writer = 0
    /\ email \in DOMAIN subscriptions
    /\ subscriptions[email] = "pending_confirmation"
    /\ subscriptions' = [subscriptions EXCEPT ![email] = "confirmed"]
    /\ UNCHANGED <<idempotency, newsletter_issues, issue_delivery_queue, writer, request,
                   worker, returned, histVars, dispatchVars, subscribeVars, rt>>

\* Publishes and the worker while subscribers confirm; the storage answers
\* every statement.
NextSubscribers ==
    \/ \E r \in Requests, form \in PublishInputs :
            publish_newsletter(r, form.user_id, form.idempotency_key)
    \/ \E r \in Requests : try_processing(r, FALSE)
    \/ \E r \in Requests : return_saved_response(r, FALSE)
    \/ \E r \in Requests : insert_newsletter_issue(r, FALSE)
    \/ \E r \in Requests : enqueue_delivery_tasks(r, FALSE)
    \/ \E r \in Requests : save_response(r, FALSE)
    \/ dequeue_task(TheWorker, FALSE)
    \/ parse_and_get_issue(TheWorker, FALSE)
    \/ \E delivered \in BOOLEAN : send_email(TheWorker, delivered)
    \/ \E email \in Emails : confirm(email)

SpecSubscribers == Init /\ [][NextSubscribers]_vars

\* Publishes and their repeats with several try_execute_task executions side
\* by side; the storage answers every statement.
NextDelivery ==
    \/ \E r \in Requests, form \in PublishInputs :
            publish_newsletter(r, form.user_id, form.idempotency_key)
    \/ \E r \in Requests : try_processing(r, FALSE)
    \/ \E r \in Requests : return_saved_response(r, FALSE)
    \/ \E r \in Requests : insert_newsletter_issue(r, FALSE)
    \/ \E r \in Requests : enqueue_delivery_tasks(r, FALSE)
    \/ \E r \in Requests : save_response(r, FALSE)
    \/ \E w \in Workers : dequeue_task(w, FALSE)
    \/ \E w \in Workers : parse_and_get_issue(w, FALSE)
    \/ \E w \in Workers, delivered \in BOOLEAN : send_email(w, delivered)

SpecDelivery == Init /\ [][NextDelivery]_vars

\* ------------------------------------------------------------------ subscribe

\* The write lock as held by subscribe request s; publish requests hold it
\* under their own positive numbers.
SubscribeWriter(s) == 0 - s

\* generate_subscription_token: 25 random alphanumerics, here one fresh token
\* per request.
generate_subscription_token(s) == s

SubscribeErrorAsStatusCode(error) ==
    IF error = "ValidationError" THEN e400 ELSE e500

\* SubscribeError::into_response: every error is a redirect back home.
SubscribeErrorIntoResponse(error) ==
    CASE error = "ValidationError" -> RedirectTo(ErrorValidation)
      [] error = "TurnstileError" -> RedirectTo(ErrorCaptcha)
      [] error = "UnexpectedError" -> RedirectTo(ErrorServer)

\* subscribe returns `result`; an open transaction is dropped (rolled back).
\* `fault` names the storage or email call that failed, if one did.
SubscribeFinish(s, result, fault) ==
    [subscriber[s] EXCEPT
        !.pc = "done", !.tx = EmptySubscribeTx,
        !.error = IF result.ok THEN "" ELSE result.value,
        !.fault = fault,
        !.response = Some(IF result.ok THEN result.value
                          ELSE SubscribeErrorIntoResponse(result.value))]

\* subscribe up to pool.begin(): the Turnstile check first, then the form's
\* conversion to a NewSubscriber, then the transaction is opened.
\* The request keeps the form it came with.
subscribe(s, form, fail) ==
    /\ subscriber[s].pc = "idle"
    /\ \A q \in Subscribes : q < s => subscriber[q].pc # "idle"
    /\ LET name == SubscriberNameParse(form.name)
           email == SubscriberEmailParse(form.email)
       IN subscriber' = [subscriber EXCEPT ![s] =
            [form |-> Some(form)] @@
            (IF ~form.turnstile THEN SubscribeFinish(s, Err("TurnstileError"), "")
             ELSE IF ~name.ok \/ ~email.ok
                  THEN SubscribeFinish(s, Err("ValidationError"), "")
             ELSE IF fail THEN SubscribeFinish(s, Err("UnexpectedError"), "begin")
             ELSE [@ EXCEPT !.pc = "insert_subscriber", !.name = name.value,
                            !.email = email.value, !.tx.open = TRUE])]
    /\ UNCHANGED <<dbVars, writer, request, worker, returned, histVars, dispatchVars,
                   subscription_tokens, confirmation_emails, visited, rt>>

insert_subscriber_conflict_is_error(s, fail) ==
    /\ subscriber[s].pc = "insert_subscriber"
    /\ IF fail
       THEN /\ subscriber' = [subscriber EXCEPT ![s] =
                    SubscribeFinish(s, Err("UnexpectedError"), "insert_subscriber")]
            /\ UNCHANGED writer
       ELSE /\ writer = 0
            /\ IF subscriber[s].email \in DOMAIN subscriptions
               THEN /\ subscriber' = [subscriber EXCEPT ![s] =
                            SubscribeFinish(s, Err("UnexpectedError"), "")]
                    /\ UNCHANGED writer
               ELSE /\ subscriber' = [subscriber EXCEPT
                            ![s].pc = "store_token",
                            ![s].tx.subscriptions =
                                (subscriber[s].email :> "pending_confirmation")]
                    /\ writer' = SubscribeWriter(s)
    /\ UNCHANGED <<dbVars, request, worker, returned, histVars, dispatchVars,
                   subscription_tokens, confirmation_emails, visited, rt>>

insert_subscriber_confirmed(s, fail) ==
    /\ subscriber[s].pc = "insert_subscriber"
    /\ IF fail
       THEN /\ subscriber' = [subscriber EXCEPT ![s] =
                    SubscribeFinish(s, Err("UnexpectedError"), "insert_subscriber")]
            /\ UNCHANGED writer
       ELSE /\ writer = 0
            /\ IF subscriber[s].email \in DOMAIN subscriptions
               THEN /\ subscriber' = [subscriber EXCEPT ![s] =
                            SubscribeFinish(s, Ok(RedirectTo(Subscribed)), "")]
                    /\ UNCHANGED writer
               ELSE /\ subscriber' = [subscriber EXCEPT
                            ![s].pc = "store_token",
                            ![s].tx.subscriptions = (subscriber[s].email :> "confirmed")]
                    /\ writer' = SubscribeWriter(s)
    /\ UNCHANGED <<dbVars, request, worker, returned, histVars, dispatchVars,
                   subscription_tokens, confirmation_emails, visited, rt>>

\* insert_subscriber: INSERT INTO subscriptions ... 'pending_confirmation'.
\* The statement waits for the write lock; the email column is unique, and a
\* violation makes subscribe answer as if the subscription had succeeded.
insert_subscriber(s, fail) ==
    /\ subscriber[s].pc = "insert_subscriber"
    /\ IF fail
       THEN /\ subscriber' = [subscriber EXCEPT ![s] =
                    SubscribeFinish(s, Err("UnexpectedError"), "insert_subscriber")]
            /\ UNCHANGED writer
       ELSE /\ writer = 0
            /\ IF subscriber[s].email \in DOMAIN subscriptions
               THEN /\ subscriber' = [subscriber EXCEPT ![s] =
                            SubscribeFinish(s, Ok(RedirectTo(Subscribed)), "")]
                    /\ UNCHANGED writer
               ELSE /\ subscriber' = [subscriber EXCEPT
                            ![s].pc = "store_token",
                            ![s].tx.subscriptions =
                                (subscriber[s].email :> "pending_confirmation")]
                    /\ writer' = SubscribeWriter(s)
    /\ UNCHANGED <<dbVars, request, worker, returned, histVars, dispatchVars,
                   subscription_tokens, confirmation_emails, visited, rt>>

\* The row store_token inserts; a subscriber's uuid is stood for by its email,
\* the other unique column of subscriptions.
SubscriptionToken(s) ==
    [subscription_token |-> generate_subscription_token(s),
     subscriber_id |-> subscriber[s].email]

store_token_and_send(s, fail) ==
    /\ subscriber[s].pc = "store_token"
    /\ IF fail
       THEN /\ subscriber' = [subscriber EXCEPT ![s] =
                    SubscribeFinish(s, Err("UnexpectedError"), "store_token")]
            /\ writer' = 0
            /\ UNCHANGED confirmation_emails
       ELSE /\ subscriber' = [subscriber EXCEPT
                    ![s].pc = "commit",
                    ![s].tx.subscription_tokens = {SubscriptionToken(s)}]
            /\ confirmation_emails' =
                    Bump(confirmation_emails, generate_subscription_token(s))
            /\ UNCHANGED writer
    /\ UNCHANGED <<dbVars, request, worker, returned, histVars, dispatchVars,
                   subscription_tokens, visited, rt>>

\* store_token: INSERT INTO subscription_tokens, in the same transaction.
store_token(s, fail) ==
    /\ subscriber[s].pc = "store_token"
    /\ IF fail
       THEN /\ subscriber' = [subscriber EXCEPT ![s] =
                    SubscribeFinish(s, Err("UnexpectedError"), "store_token")]
            /\ writer' = 0
       ELSE /\ subscriber' = [subscriber EXCEPT
                    ![s].pc = "commit",
                    ![s].tx.subscription_tokens = {SubscriptionToken(s)}]
            /\ UNCHANGED writer
    /\ UNCHANGED <<dbVars, request, worker, returned, histVars, dispatchVars,
                   subscription_tokens, confirmation_emails, visited, rt>>

\* transaction.commit(): the subscriber row and its token become visible
\* together, or, if the commit fails, not at all.
subscribe_commit(s, fail) ==
    /\ subscriber[s].pc = "commit"
    /\ IF fail
       THEN /\ subscriber' = [subscriber EXCEPT ![s] =
                    SubscribeFinish(s, Err("UnexpectedError"), "commit")]
            /\ UNCHANGED <<subscriptions, subscription_tokens>>
       ELSE /\ subscriptions' = subscriptions @@ subscriber[s].tx.subscriptions
            /\ subscription_tokens' =
                    subscription_tokens \cup subscriber[s].tx.subscription_tokens
            /\ subscriber' = [subscriber EXCEPT
                    ![s].pc = "send_confirmation_email", ![s].tx = EmptySubscribeTx]
    /\ writer' = 0
    /\ UNCHANGED <<idempotency, newsletter_issues, issue_delivery_queue, request, worker,
                   returned, histVars, dispatchVars, confirmation_emails, visited, rt>>

\* send_confirmation_email, after the commit: one email carrying the link
\* with the token; `delivered` is the email client's outcome.
send_confirmation_email(s, delivered) ==
    /\ subscriber[s].pc = "send_confirmation_email"
    /\ confirmation_emails' = Bump(confirmation_emails, generate_subscription_token(s))
    /\ subscriber' = [subscriber EXCEPT ![s] =
            IF delivered
            THEN SubscribeFinish(s, Ok(RedirectTo(Subscribed)), "")
            ELSE SubscribeFinish(s, Err("UnexpectedError"), "send_confirmation_email")]
    /\ UNCHANGED <<dbVars, writer, request, worker, returned, histVars, dispatchVars,
                   subscription_tokens, visited, rt>>

\* The confirmation link of `token`, which reaches the subscriber in the
\* confirmation email, is followed: the subscriber the token belongs to
\* becomes confirmed, in a statement of its own, which like every write waits
\* for the write lock.
confirm_token(token) ==
    /\ token \in DOMAIN confirmation_emails
    /\ writer = 0
    /\ \E row \in subscription_tokens :
            /\ row.subscription_token = token
            /\ subscriptions' = [subscriptions EXCEPT ![row.subscriber_id] = "confirmed"]
    /\ visited' = visited \cup {token}
    /\ UNCHANGED <<idempotency, newsletter_issues, issue_delivery_queue, writer, request,
                   worker, returned, histVars, dispatchVars, subscription_tokens, subscriber,
                   confirmation_emails, rt>>

\* A storage without subscribers.
InitSubscribers ==
    /\ idempotency = {}
    /\ newsletter_issues = {}
    /\ issue_delivery_queue = {}
    /\ subscriptions = <<>>
    /\ writer = 0
    /\ InitRest

\* Subscribe requests, under storage and email failures, while confirmation
\* links are followed and one publish request runs.
NextSubscribe ==
    \/ \E s \in Subscribes, form \in SubscribeInputs, fail \in BOOLEAN : subscribe(s, form, fail)
    \/ \E s \in Subscribes, fail \in BOOLEAN : insert_subscriber(s, fail)
    \/ \E s \in Subscribes, fail \in BOOLEAN : store_token(s, fail)
    \/ \E s \in Subscribes, fail \in BOOLEAN : subscribe_commit(s, fail)
    \/ \E s \in Subscribes, delivered \in BOOLEAN : send_confirmation_email(s, delivered)
    \/ \E s \in Subscribes : confirm_token(generate_subscription_token(s))
    \/ \E form \in PublishInputs :
            publish_newsletter(FirstRequest, form.user_id, form.idempotency_key)
    \/ try_processing(FirstRequest, FALSE)
    \/ insert_newsletter_issue(FirstRequest, FALSE)
    \/ enqueue_delivery_tasks(FirstRequest, FALSE)
    \/ save_response(FirstRequest, FALSE)

SpecSubscribe == InitSubscribers /\ [][NextSubscribe]_vars

\* ------------------------------------------- dispatch_all_pending_emails

\* The test helper's scenario: one publish that commits, then
\* try_execute_task called in a loop until it returns EmptyQueue; the storage
\* does not fail, and an error would panic the helper's unwrap.

dispatch_publish ==
    /\ dispatch = "publish"
    /\ \/ \E form \in PublishInputs :
            publish_newsletter(FirstRequest, form.user_id, form.idempotency_key)
       \/ try_processing(FirstRequest, FALSE)
       \/ insert_newsletter_issue(FirstRequest, FALSE)
       \/ enqueue_delivery_tasks(FirstRequest, FALSE)
       \/ save_response(FirstRequest, FALSE)

dispatch_start ==
    /\ dispatch = "publish"
    /\ request[FirstRequest].pc = "done"
    /\ request[FirstRequest].path = "StartProcessing"
    /\ request[FirstRequest].error = ""
    /\ dispatch' = "dispatching"
    /\ UNCHANGED <<dbVars, writer, request, worker, returned, histVars, n_completed, loop, subscribeVars, rt>>

dispatch_attempt ==
    /\ dispatch = "dispatching"
    /\ returned.outcome = ""
    /\ \/ dequeue_task(TheWorker, FALSE)
       \/ parse_and_get_issue(TheWorker, FALSE)
       \/ \E delivered \in BOOLEAN : send_email(TheWorker, delivered)

\* loop { if let EmptyQueue = try_execute_task(..).await.unwrap() { break; } }
dispatch_all_pending_emails ==
    /\ dispatch = "dispatching"
    /\ returned.outcome # ""
    /\ IF returned.outcome = "EmptyQueue"
       THEN dispatch' = "done" /\ UNCHANGED <<returned, n_completed>>
       ELSE IF returned.outcome = "TaskCompleted"
       THEN /\ n_completed' = n_completed + 1
            /\ returned' = [outcome |-> "", detail |-> ""]
            /\ UNCHANGED dispatch
       ELSE dispatch' = "panicked" /\ UNCHANGED <<returned, n_completed>>
    /\ UNCHANGED <<dbVars, writer, request, worker, histVars, loop, subscribeVars, rt>>

NextDispatch ==
    \/ dispatch_publish
    \/ dispatch_start
    \/ dispatch_attempt
    \/ dispatch_all_pending_emails

SpecDispatch == InitWorkers /\ [][NextDispatch]_vars

\* ------------------------------------------------------ claims: the handler

Arrived(r) == request[r].pc # "idle" /\ request[r].path # "rejected"
Answered(r) == request[r].pc = "done"
\* r ran the insert-issue and enqueue path and committed.
Executed(r) ==
    Answered(r) /\ request[r].path = "StartProcessing" /\ request[r].error = ""
\* r was answered from the saved response.
Replayed(r) ==
    Answered(r) /\ request[r].path = "ReturnSavedResponse" /\ request[r].error = ""
SameUserAndKey(p, q) ==
    /\ Arrived(p) /\ Arrived(q)
    /\ request[p].user_id = request[q].user_id
    /\ request[p].idempotency_key = request[q].idempotency_key

\* Every delivery task ever committed for the issue of request r: those still
\* queued and those a dequeue has returned.
TasksCreated(r) ==
    {t \in issue_delivery_queue \cup DOMAIN claimed : t.newsletter_issue_uuid = r}
IssuesCreated(rs) == {i \in newsletter_issues : i.newsletter_issue_uuid \in rs}

\* C1: when a publish request has completed with success and a second request
\* with the same user and key is made afterwards, one issue row and one set of
\* delivery tasks (one per confirmed subscriber) exist in total, and the second
\* request, unless the storage fails under it, is answered with the same status
\* code, headers and body as the first.
C1_SequentialReplay ==
    \A p \in Requests, q \in Requests :
        (SameUserAndKey(p, q) /\ p \in request[q].after /\ Executed(p) /\ Answered(q)) =>
            /\ IssuesCreated({p, q}) = {NewsletterIssue(p)}
            /\ TasksCreated(p) = DeliveryTasks(p)
            /\ TasksCreated(q) = {}
            /\ ~request[q].fault =>
                    /\ Replayed(q)
                    /\ request[q].response = request[p].response

C1_Witness ==
    \E p \in Requests, q \in Requests :
        /\ SameUserAndKey(p, q) /\ p \in request[q].after
        /\ Executed(p) /\ Replayed(q)
        /\ request[q].response = Some(RedirectToAdminNewsletters)
        /\ TasksCreated(p) # {}

\* C2: among the publish requests with one user and key, under any
\* interleaving, at most one runs the insert-issue and enqueue path and
\* commits; every other one that the storage does not fail is answered with the
\* saved response of that one; one issue and one task set exist for the key.
C2_ConcurrentSameKey ==
    \A q \in Requests :
        LET same == {p \in Requests : SameUserAndKey(p, q)}
            executed == {p \in same : Executed(p)}
        IN  /\ Cardinality(executed) <= 1
            /\ IssuesCreated(same) = {NewsletterIssue(p) : p \in executed}
            /\ \A p \in same : TasksCreated(p) =
                                    IF p \in executed THEN DeliveryTasks(p) ELSE {}
            /\ (Arrived(q) /\ Answered(q) /\ ~request[q].fault /\ q \notin executed) =>
                    /\ Replayed(q)
                    /\ \E p \in executed : request[q].response = request[p].response

\* Two requests with one key in flight together, one executed, one replayed.
C2_Witness ==
    \E p \in Requests, q \in Requests :
        /\ SameUserAndKey(p, q) /\ p # q
        /\ request[q].after = {} /\ request[p].after = {}
        /\ Executed(p) /\ Replayed(q)
        /\ request[q].response = request[p].response

FailedMidway(r) ==
    /\ Answered(r) /\ request[r].fault
    /\ request[r].error \in {"Failed to store newsletter issue details",
                             "Failed to enqueue delivery tasks"}

C3_FailureStep ==
    \A r \in Requests :
        (request[r].pc \in {"insert_newsletter_issue", "enqueue_delivery_tasks"}
            /\ request'[r].pc = "done") =>
            /\ request'[r].response = Some(e500)
            /\ NewsletterIssue(r) \notin newsletter_issues'
            /\ \A t \in issue_delivery_queue' : t.newsletter_issue_uuid # r
            /\ RowsOf(idempotency', request[r].user_id, request[r].idempotency_key) = {}
            /\ writer' = 0

C3_RetryStep ==
    \A q \in Requests :
        (request[q].pc = "try_processing" /\ request'[q].pc # "try_processing"
            /\ ~request'[q].fault
            /\ RowsOf(idempotency, request[q].user_id, request[q].idempotency_key) = {}) =>
            /\ request'[q].path = "StartProcessing"
            /\ request'[q].pc = "insert_newsletter_issue"

C3_NothingSurvives ==
    \A r \in Requests :
        FailedMidway(r) =>
            /\ request[r].response = Some(e500)
            /\ IssuesCreated({r}) = {}
            /\ TasksCreated(r) = {}
            /\ RowsOf(idempotency, request[r].user_id, request[r].idempotency_key) # {}
                  => \E q \in Requests : q # r /\ SameUserAndKey(q, r) /\ Executed(q)
            /\ \A q \in Requests :
                  (r \in request[q].after /\ request[q].path = "ReturnSavedResponse") =>
                      \E p \in Requests : p # r /\ SameUserAndKey(p, r) /\ Executed(p)

\* C3: when insert_newsletter_issue or enqueue_delivery_tasks fails, the handler
\* answers 500 and the committed state holds neither the issue nor a task of it
\* nor an idempotency record of the key; a request with that user and key whose
\* reservation insert then runs (no record being committed) takes
\* StartProcessing, and a request made after the failure replays only what
\* another request has executed since; the failed request's issue is never
\* committed.
C3_PartialFailure ==
    [][C3_FailureStep /\ C3_RetryStep]_vars /\ []C3_NothingSurvives

\* A request failed at the enqueue, and a request with its key executed the
\* publish again.
C3_Witness ==
    \E r \in Requests, q \in Requests :
        /\ FailedMidway(r) /\ request[r].error = "Failed to enqueue delivery tasks"
        /\ SameUserAndKey(q, r) /\ r \in request[q].after /\ Executed(q)
        /\ NewsletterIssue(q) \in newsletter_issues
        /\ NewsletterIssue(r) \notin newsletter_issues

\* The row a committed publish of request r leaves in table idempotency.
CompletedRow(r) ==
    SavedRow(request[r].user_id, request[r].idempotency_key, RedirectToAdminNewsletters)

C4_CommittedTogether ==
    /\ \A i \in newsletter_issues : Executed(i.newsletter_issue_uuid)
    /\ \A t \in issue_delivery_queue : Executed(t.newsletter_issue_uuid)
    /\ \A row \in idempotency :
            /\ row.response_status_code # NULL
            /\ \E r \in Requests : Executed(r) /\ row = CompletedRow(r)
                                     /\ NewsletterIssue(r) \in newsletter_issues

C4_CommitStep ==
    (newsletter_issues' # newsletter_issues \/ idempotency' # idempotency) =>
        \E r \in Requests :
            /\ request[r].pc = "save_response"
            /\ newsletter_issues' = newsletter_issues \cup {NewsletterIssue(r)}
            /\ NewsletterIssue(r) \notin newsletter_issues
            /\ issue_delivery_queue' = issue_delivery_queue \cup DeliveryTasks(r)
            /\ idempotency' = idempotency \cup {CompletedRow(r)}
            /\ CompletedRow(r) \notin idempotency

\* C4: the issue row, its delivery tasks and the completed idempotency record
\* of a publish reach the committed state in one step: no committed state holds
\* an issue, a task or a completed record of a request that has not inserted
\* all three and committed.
C4_AtomicCommit == []C4_CommittedTogether /\ [][C4_CommitStep]_vars

C4_Witness ==
    \E r \in Requests :
        /\ Executed(r)
        /\ NewsletterIssue(r) \in newsletter_issues
        /\ DeliveryTasks(r) # {} /\ DeliveryTasks(r) \subseteq issue_delivery_queue
        /\ CompletedRow(r) \in idempotency
        /\ \E q \in Requests : request[q].pc = "enqueue_delivery_tasks"

C10_RejectedState ==
    \A r \in Requests :
        /\ (request[r].pc # "idle" /\ request[r].path # "rejected")
                => IdempotencyKeyTryFrom(request[r].idempotency_key).ok
        /\ request[r].path = "rejected" =>
                /\ request[r].response = Some(Response(BAD_REQUEST, EmptyHeaderMap, <<>>))
                /\ request[r].pc = "done"
                /\ ~request[r].tx.open
                /\ writer # r

C10_RejectStep ==
    \A r \in Requests :
        (request[r].path # "rejected" /\ request'[r].path = "rejected") =>
            /\ request[r].pc = "idle"
            /\ UNCHANGED <<dbVars, writer>>

\* C10: a publish request whose key fails validation is answered 400 and
\* touches no storage: it never opens a transaction or takes the write lock, and
\* the step that answers it leaves every table as it was; every request that
\* gets past the first line of the handler carries a valid key.
C10_InvalidKey == []C10_RejectedState /\ [][C10_RejectStep]_vars

C10_Witness ==
    \E r \in Requests :
        /\ request[r].path = "rejected"
        /\ request[r].response = Some(e400)
        /\ idempotency = {} /\ newsletter_issues = {}

\* -------------------------------------------- save_response, read back

\* The responses handed to save_response: a status code, the header map that
\* appending a list of (name, value) pairs builds, and a body.
StatusCodes == {100, 200, 303, 404, 500, 999}
Bodies == {<<>>, <<0>>, <<104, 255>>}
HeaderPairs == {[name |-> n, value |-> v] : n \in HeaderNames, v \in HeaderValues}
HeaderLists == UNION {[1..n -> HeaderPairs] : n \in 0..MaxHeaders}

RECURSIVE HeaderMapOf(_, _)
HeaderMapOf(map, pairs) ==
    IF pairs = <<>> THEN map
    ELSE HeaderMapOf(HeaderMapAppend(map, Head(pairs).name, Head(pairs).value), Tail(pairs))

RoundTripUser == "u1"
RoundTripKey == <<"a">>

InitRoundTrip ==
    /\ idempotency = {ReservedRow(RoundTripUser, RoundTripKey)}
    /\ newsletter_issues = {}
    /\ issue_delivery_queue = {}
    /\ subscriptions = [e \in Emails |-> "pending_confirmation"]
    /\ writer = 0
    /\ request = [r \in Requests |-> IdleRequest]
    /\ worker = [w \in Workers |-> IdleWorker]
    /\ returned = [outcome |-> "", detail |-> ""]
    /\ claimed = <<>>
    /\ sent = <<>>
    /\ n_completed = 0
    /\ dispatch = "publish"
    /\ loop = [pc |-> "try_execute_task", secs |-> 0]
    /\ InitSubscribe
    /\ \E status \in StatusCodes, pairs \in HeaderLists, body \in Bodies :
            rt = [pc |-> "save_response",
                  saved |-> Some(Response(status, HeaderMapOf(EmptyHeaderMap, pairs), body)),
                  loaded |-> NULL]

\* save_response's UPDATE of the reserved row, committed.
round_trip_save ==
    /\ rt.pc = "save_response"
    /\ idempotency' = UpdateIdempotency(idempotency, RoundTripUser, RoundTripKey, rt.saved[1])
    /\ rt' = [rt EXCEPT !.pc = "get_saved_response"]
    /\ UNCHANGED <<newsletter_issues, issue_delivery_queue, subscriptions, writer, request,
                   worker, returned, histVars, dispatchVars, subscribeVars>>

\* get_saved_response for the same user and key.
round_trip_load ==
    /\ rt.pc = "get_saved_response"
    /\ rt' = [rt EXCEPT !.pc = "done",
                        !.loaded = Some(get_saved_response(idempotency, RoundTripKey,
                                                            RoundTripUser))]
    /\ UNCHANGED <<dbVars, writer, request, worker, returned, histVars, dispatchVars, subscribeVars>>

NextRoundTrip == round_trip_save \/ round_trip_load

SpecRoundTrip == InitRoundTrip /\ [][NextRoundTrip]_vars

\* C9: a response saved by save_response and read by get_saved_response for
\* the same user and key comes back with the same status code, the same header
\* pairs in the same order (a repeated name keeps all its values) and the same
\* body bytes.
C9_RoundTrip ==
    rt.pc = "done" =>
        /\ rt.loaded[1].ok
        /\ rt.loaded[1].value = rt.saved
        /\ HeaderMapIter(rt.loaded[1].value[1].headers) = HeaderMapIter(rt.saved[1].headers)

\* A response with a repeated header name between two other headers came back.
C9_Witness ==
    /\ rt.pc = "done"
    /\ rt.loaded[1].ok
    /\ rt.loaded[1].value = rt.saved
    /\ \E i \in 1..Len(rt.saved[1].headers) : Len(rt.saved[1].headers[i].values) = 2
    /\ Len(rt.saved[1].headers) = 2
    /\ rt.saved[1].status = 999
    /\ rt.saved[1].body = <<104, 255>>

\* ------------------------------------------------------- claims: the worker

ConfirmedSubscribers == {e \in DOMAIN subscriptions : subscriptions[e] = "confirmed"}

\* C5: after a committed publish with K confirmed subscribers into an empty
\* queue, with no other publish and no storage error, the calls of
\* try_execute_task return TaskCompleted exactly K times and then EmptyQueue,
\* and the queue is then empty.
C5_DrainsInKAttempts ==
    /\ n_completed <= Cardinality(ConfirmedSubscribers)
    /\ dispatch # "panicked"
    /\ dispatch = "done" =>
            /\ n_completed = Cardinality(ConfirmedSubscribers)
            /\ returned.outcome = "EmptyQueue"
            /\ issue_delivery_queue = {}
            /\ \A w \in Workers : worker[w] = IdleWorker

C5_Witness ==
    /\ dispatch = "done"
    /\ n_completed = 3
    /\ Cardinality(ConfirmedSubscribers) = 3
    /\ returned.outcome = "EmptyQueue"
    /\ issue_delivery_queue = {}

Held(w) == worker[w].task # NULL
InvalidAddress(task) == ~SubscriberEmailParse(task.subscriber_email).ok

\* C6: with try_execute_task executions running side by side, every delivery
\* task row is returned by at most one dequeue_task call and is gone from the
\* queue once returned, so no two executions hold the same task and
\* send_email is called at most once for it.
C6_ClaimedOnce ==
    /\ \A row \in DOMAIN claimed : claimed[row] = 1
    /\ \A pair \in DOMAIN sent : sent[pair] = 1
    /\ \A w \in Workers : Held(w) => worker[w].task[1] \notin issue_delivery_queue
    /\ \A v \in Workers, w \in Workers :
            (v # w /\ Held(v)) => worker[v].task # worker[w].task

\* Two executions hold a task each, both about to send.
C6_Witness ==
    \E v \in Workers, w \in Workers :
        /\ v # w
        /\ worker[v].pc = "send_email" /\ worker[w].pc = "send_email"
        /\ worker[v].task[1].newsletter_issue_uuid = worker[w].task[1].newsletter_issue_uuid

C7_DropStep ==
    \A w \in Workers :
        (worker[w].pc = "parse" /\ InvalidAddress(worker[w].task[1])
            /\ worker'[w] # worker[w]) =>
            /\ returned' = [outcome |-> "TaskCompleted", detail |-> "invalid_email"]
            /\ worker'[w] = IdleWorker
            /\ UNCHANGED <<issue_delivery_queue, sent>>

C7_Dropped ==
    /\ \A pair \in DOMAIN sent : ~InvalidAddress(pair)
    /\ \A row \in DOMAIN claimed :
            InvalidAddress(row) => claimed[row] = 1 /\ row \notin issue_delivery_queue
    /\ \A w \in Workers :
            (Held(w) /\ InvalidAddress(worker[w].task[1])) => worker[w].pc = "parse"

\* C7: a delivery task whose address fails SubscriberEmail::parse is removed
\* by the one try_execute_task call that dequeues it: that call returns
\* TaskCompleted without calling send_email, and the task is never in the queue
\* again nor dequeued a second time.
C7_InvalidAddressDropped == []C7_Dropped /\ [][C7_DropStep]_vars

C7_Witness ==
    /\ returned = [outcome |-> "TaskCompleted", detail |-> "invalid_email"]
    /\ \E row \in DOMAIN claimed :
            /\ InvalidAddress(row)
            /\ row \notin issue_delivery_queue
            /\ row \notin DOMAIN sent
    /\ \A w \in Workers : ~Held(w)

C8_SendStep ==
    \A w \in Workers :
        (worker[w].pc = "send_email" /\ worker'[w] # worker[w]) =>
            /\ returned'.outcome = "TaskCompleted"
            /\ returned'.detail \in {"sent", "send_failed"}
            /\ worker'[w] = IdleWorker
            /\ UNCHANGED issue_delivery_queue
            /\ worker[w].task[1] \notin DOMAIN sent
            /\ sent'[worker[w].task[1]] = 1

C8_SentOnce ==
    /\ \A pair \in DOMAIN sent : sent[pair] = 1 /\ pair \notin issue_delivery_queue
    /\ returned.detail = "send_failed" => returned.outcome = "TaskCompleted"

\* C8: when send_email fails for a dequeued task with a valid address, the
\* call still returns TaskCompleted, the task is not put back in the queue, and
\* send_email is never called for that (issue, recipient) pair again.
C8_SendFailureDropped == []C8_SentOnce /\ [][C8_SendStep]_vars

C8_Witness ==
    /\ returned = [outcome |-> "TaskCompleted", detail |-> "send_failed"]
    /\ \E pair \in DOMAIN sent : sent[pair] = 1 /\ pair \notin issue_delivery_queue
    /\ \A w \in Workers : ~Held(w)
    /\ Cardinality(newsletter_issues) = 2

\* ------------------------------------------------- claims: the reservation

\* Request r holds a StartProcessing reservation: its transaction is open and
\* its reservation insert affected a row.
HoldsReservation(r) ==
    /\ request[r].tx.open
    /\ request[r].path = "StartProcessing"
    /\ ReservedRow(request[r].user_id, request[r].idempotency_key)
            \in request[r].tx.idempotency

\* C11: for one (user_id, key), no two requests hold a StartProcessing
\* reservation (an open transaction whose reservation insert affected a row) at
\* the same time.
C11_OneReservation ==
    \A p \in Requests, q \in Requests :
        (p # q /\ HoldsReservation(p) /\ HoldsReservation(q)) => ~SameUserAndKey(p, q)

\* One request holds the reservation while another with its user and key has
\* arrived and waits at its reservation insert.
C11_Witness ==
    \E p \in Requests, q \in Requests :
        /\ p # q /\ SameUserAndKey(p, q)
        /\ HoldsReservation(p)
        /\ request[p].pc = "save_response"
        /\ request[q].pc = "try_processing"

\* Request r asks for the key of the record that lacks its response.
AsksPending(r) ==
    /\ Arrived(r)
    /\ request[r].user_id = PendingRecord.user_uuid
    /\ request[r].idempotency_key = PendingRecord.idempotency_key

C12_ReplayStep ==
    \A r \in Requests :
        (AsksPending(r) /\ PendingRecord \in idempotency /\ request'[r] # request[r]) =>
            /\ UNCHANGED <<idempotency, newsletter_issues>>
            /\ issue_delivery_queue' \subseteq issue_delivery_queue
            /\ request[r].pc = "try_processing" =>
                    /\ request'[r].path = "ReturnSavedResponse"
                    /\ request'[r].pc = "get_saved_response"
            /\ request[r].pc = "get_saved_response" =>
                    /\ request'[r].pc = "done"
                    /\ request'[r].response = Some(e500)
                    /\ request'[r].error # ""

C12_RecordKept == PendingRecord \in idempotency => (PendingRecord \in idempotency)'

C12_NeverExecuted ==
    \A r \in Requests :
        (AsksPending(r) /\ PendingRecord \in idempotency) =>
            /\ request[r].pc \in {"try_processing", "get_saved_response", "done"}
            /\ request[r].path # "StartProcessing"
            /\ ~request[r].tx.open \/ request[r].tx = [EmptyTx EXCEPT !.open = TRUE]
            /\ IssuesCreated({r}) = {}
            /\ TasksCreated(r) = {}
            /\ Answered(r) => request[r].response = Some(e500)

\* C12: when the reservation insert affects no row and the record of
\* (user_id, key) has no saved response, try_processing returns an error, the
\* handler answers 500, no issue and no delivery task is created and the
\* record stays as it is, for every request that asks for the key.
C12_PendingRecordIsFatal ==
    /\ []C12_NeverExecuted
    /\ [][C12_ReplayStep]_vars
    /\ [][C12_RecordKept]_vars

\* Two requests for the key were both answered 500, the record still pending.
C12_Witness ==
    /\ PendingRecord \in idempotency
    /\ \A r \in Requests :
            /\ AsksPending(r) /\ Answered(r)
            /\ request[r].path = "ReturnSavedResponse"
            /\ request[r].response = Some(e500)
            /\ ~request[r].fault

\* ------------------------------------------------ claims: the subscribers

\* Every delivery task of the issue of request r there is, committed or not.
AllTasks(r) ==
    {t \in request[r].tx.issue_delivery_queue \cup issue_delivery_queue \cup DOMAIN claimed :
        t.newsletter_issue_uuid = r}

C13_EnqueueStep ==
    \A r \in Requests :
        (request[r].pc = "enqueue_delivery_tasks" /\ request'[r].pc = "save_response") =>
            /\ \A e \in DOMAIN subscriptions :
                    subscriptions[e] = "confirmed" <=>
                        [newsletter_issue_uuid |-> r, subscriber_email |-> e]
                            \in request'[r].tx.issue_delivery_queue
            /\ \A t \in request'[r].tx.issue_delivery_queue :
                    t.newsletter_issue_uuid = r /\ t.subscriber_email \in DOMAIN subscriptions

C13_NoLateTask ==
    \A r \in Requests :
        request[r].pc \in {"save_response", "done"} => AllTasks(r)' = AllTasks(r)

\* C13: the enqueue statement of a publish creates one delivery task for each
\* subscriber whose status is confirmed at that instant and none for a pending
\* one, and no task of the issue is created afterwards, whoever confirms later.
C13_SnapshotAtEnqueue == [][C13_EnqueueStep /\ C13_NoLateTask]_vars

\* A publish committed with a task for one subscriber; another subscriber is
\* confirmed by now and has no task of that issue.
C13_Witness ==
    \E r \in Requests, e \in DOMAIN subscriptions :
        /\ Executed(r)
        /\ AllTasks(r) # {}
        /\ subscriptions[e] = "confirmed"
        /\ [newsletter_issue_uuid |-> r, subscriber_email |-> e] \notin AllTasks(r)

\* ------------------------------------- claims: the worker and the handler

\* The tasks the worker has taken off the queue, and those it sent for.
Dequeued == DOMAIN claimed \cup {worker[w].task[1] : w \in {v \in Workers : Held(v)}}

RolledBack(r) == Answered(r) /\ request[r].path = "StartProcessing" /\ request[r].error # ""

\* C14: every task the worker dequeues, and every email it sends, belongs to
\* an issue whose publish transaction has committed; of a publish that rolled
\* back no task is ever in the queue, dequeued or sent.
C14_OnlyCommittedTasks ==
    /\ \A t \in Dequeued \cup DOMAIN sent :
            /\ Executed(t.newsletter_issue_uuid)
            /\ NewsletterIssue(t.newsletter_issue_uuid) \in newsletter_issues
    /\ \A r \in Requests :
            (RolledBack(r) \/ ~Answered(r)) =>
                \A t \in issue_delivery_queue \cup Dequeued \cup DOMAIN sent :
                    t.newsletter_issue_uuid # r

\* One publish rolled back after it had enqueued its tasks; the worker took a
\* task of another publish, which committed.
C14_Witness ==
    \E r \in Requests, q \in Requests :
        /\ RolledBack(r) /\ request[r].error = "save_response"
        /\ \E e \in DOMAIN subscriptions : subscriptions[e] = "confirmed"
        /\ Executed(q)
        /\ \E t \in Dequeued : t.newsletter_issue_uuid = q
        /\ returned.outcome = "EmptyQueue"

\* ---------------------------------------------------- claims: worker_loop

C15_MatchStep ==
    (loop.pc = "try_execute_task" /\ returned.outcome # "" /\ loop' # loop) =>
        /\ returned.outcome = "EmptyQueue" =>
                loop' = [pc |-> "sleep", secs |-> EmptyQueueSleepSecs]
        /\ returned.outcome = "Err" =>
                loop' = [pc |-> "sleep", secs |-> ErrSleepSecs]
        /\ returned.outcome = "TaskCompleted" =>
                loop' = [pc |-> "try_execute_task", secs |-> 0]
        /\ returned'.outcome = ""

C15_WakeStep ==
    (loop.pc = "sleep" /\ loop' # loop) => loop'.pc = "try_execute_task"

C15_InLoop ==
    /\ loop.pc \in {"try_execute_task", "sleep"}
    /\ loop.pc = "sleep" => loop.secs \in {EmptyQueueSleepSecs, ErrSleepSecs}
    /\ ErrSleepSecs < EmptyQueueSleepSecs

\* An attempt is being called.
C15_Calling ==
    loop.pc = "try_execute_task" /\ returned.outcome = "" /\ worker[TheWorker] = IdleWorker

\* C15: worker_loop never returns: after EmptyQueue it sleeps 10 s, after an
\* error the shorter 1 s, after TaskCompleted not at all, and in each case it
\* calls try_execute_task again; whatever the attempts return, a next attempt
\* is always called.
C15_LoopForever ==
    /\ []C15_InLoop
    /\ [][C15_MatchStep /\ C15_WakeStep]_vars
    /\ []<>C15_Calling

\* The loop sleeps the short interval after an attempt failed on a task.
C15_Witness ==
    /\ loop = [pc |-> "sleep", secs |-> ErrSleepSecs]
    /\ claimed # <<>>
    /\ returned.outcome = ""

\* --------------------------------------------- claims: the worker's errors

C16_LoadStep ==
    \A w \in Workers :
        (worker[w].pc = "parse" /\ ~InvalidAddress(worker[w].task[1])
            /\ worker'[w] # worker[w]) =>
            LET task == worker[w].task[1]
                issue == get_issue(newsletter_issues, task.newsletter_issue_uuid)
            IN  /\ worker'[w].pc = "send_email" => issue.ok
                /\ worker'[w].pc # "send_email" =>
                        /\ returned' = [outcome |-> "Err", detail |-> "get_issue"]
                        /\ worker'[w] = IdleWorker
                        /\ UNCHANGED <<issue_delivery_queue, sent>>
                        /\ task \notin issue_delivery_queue'

C16_NotSeenAgain ==
    /\ \A row \in DOMAIN claimed : claimed[row] = 1 /\ row \notin issue_delivery_queue
    /\ \A pair \in DOMAIN sent :
            get_issue(newsletter_issues, pair.newsletter_issue_uuid).ok
    /\ returned.detail = "get_issue" => returned.outcome = "Err"

\* C16: when the issue of a dequeued task with a valid address cannot be
\* loaded, try_execute_task returns an error, sends no email, and leaves the
\* task off the queue: no later attempt dequeues it.
C16_MissingIssueIsError == []C16_NotSeenAgain /\ [][C16_LoadStep]_vars

\* The attempt on the task whose issue does not exist returned the error.
C16_Witness ==
    /\ returned = [outcome |-> "Err", detail |-> "get_issue"]
    /\ DanglingTask \in DOMAIN claimed
    /\ DanglingTask \notin issue_delivery_queue
    /\ DanglingTask \notin DOMAIN sent
    /\ \A w \in Workers : ~Held(w)

\* ------------------------------------------ claims: the attempt's outcome

\* A try_execute_task call that had dequeued a task returns in this step.
ReturnsWithTask(w) == Held(w) /\ worker'[w] = IdleWorker

C17_EmptyQueueStep ==
    /\ (returned'.outcome = "EmptyQueue" /\ returned' # returned) =>
            /\ issue_delivery_queue = {}
            /\ UNCHANGED <<dbVars, worker, histVars>>
    /\ \A w \in Workers :
            (worker[w].pc = "dequeue_task" /\ worker'[w].pc = "parse") =>
                /\ worker'[w].task[1] \in issue_delivery_queue
                /\ returned' = returned

C17_ReturnStep ==
    \A w \in Workers :
        ReturnsWithTask(w) =>
            LET task == worker[w].task[1] IN
            /\ InvalidAddress(task) =>
                    returned' = [outcome |-> "TaskCompleted", detail |-> "invalid_email"]
            /\ worker[w].pc = "send_email" =>
                    /\ returned'.outcome = "TaskCompleted"
                    /\ returned'.detail \in {"sent", "send_failed"}
            /\ returned'.outcome # "TaskCompleted" =>
                    /\ worker[w].pc = "parse" /\ ~InvalidAddress(task)
                    /\ returned' = [outcome |-> "Err", detail |-> "get_issue"]

C17_EveryReturnStep ==
    \A w \in Workers : ReturnsWithTask(w) => returned'.outcome = "TaskCompleted"

\* C17 as stated: EmptyQueue is returned only when the queue had no pending
\* task at the dequeue, with no table changed, and every call that dequeues a
\* task returns TaskCompleted.
C17_AsStated == [][C17_EmptyQueueStep /\ C17_EveryReturnStep]_vars

\* C17, amended: EmptyQueue is returned only when the queue had no pending task
\* at the dequeue, with no table changed; a call that dequeues a task returns
\* TaskCompleted when the address is invalid, when the send succeeds and when
\* the send fails, and returns an error only when the load of the issue fails.
C17_OutcomeOfAttempt == [][C17_EmptyQueueStep /\ C17_ReturnStep]_vars

\* The queue was drained, one send at least failing, and the next attempt
\* found it empty.
C17_Witness ==
    /\ returned = [outcome |-> "EmptyQueue", detail |-> ""]
    /\ issue_delivery_queue = {}
    /\ \E row \in DOMAIN claimed : InvalidAddress(row)
    /\ DOMAIN sent # {}

\* ------------------------------------------- claims: commit and rollback

\* The handler returns to its caller in this step.
Returns(r) == request[r].pc # "done" /\ request'[r].pc = "done"

C18_ErrorReturnStep ==
    \A r \in Requests :
        (Returns(r) /\ request'[r].response[1].status >= BAD_REQUEST) =>
            /\ UNCHANGED <<idempotency, newsletter_issues, issue_delivery_queue>>
            /\ request'[r].tx = EmptyTx
            /\ writer' # r

C18_OnlyCommit ==
    (idempotency' # idempotency \/ newsletter_issues' # newsletter_issues
        \/ ~(issue_delivery_queue' \subseteq issue_delivery_queue)) =>
        \E r \in Requests :
            /\ request[r].pc = "save_response" /\ request[r].path = "StartProcessing"
            /\ Returns(r)
            /\ request'[r].response = Some(RedirectToAdminNewsletters)
            /\ request'[r].error = ""
            /\ CompletedRow(r) \in idempotency'

C18_AnsweredAfterCommit ==
    \A r \in Requests :
        /\ Executed(r) =>
                /\ CompletedRow(r) \in idempotency
                /\ NewsletterIssue(r) \in newsletter_issues
        /\ Answered(r) => ~request[r].tx.open /\ writer # r
        /\ (Answered(r) /\ ~Executed(r)) => IssuesCreated({r}) = {} /\ AllTasks(r) = {}

\* C18: the publish transaction is committed only inside save_response on
\* the success path: a step that returns an error response changes no
\* committed table and leaves the transaction rolled back, every change of the
\* committed tables by the handler is the commit of a save_response that
\* returns the success response, and a request answered with a success it
\* executed has its record and issue committed.
C18_CommitOnlyOnSuccess ==
    []C18_AnsweredAfterCommit /\ [][C18_ErrorReturnStep /\ C18_OnlyCommit]_vars

\* One request failed inside save_response with nothing committed; the retry
\* with its key committed.
C18_Witness ==
    \E r \in Requests, q \in Requests :
        /\ Answered(r) /\ request[r].error = "save_response"
        /\ request[r].response = Some(e500)
        /\ IssuesCreated({r}) = {}
        /\ SameUserAndKey(r, q) /\ Executed(q)
        /\ CompletedRow(q) \in idempotency

\* ------------------------------------------------------ claims: the replay

C19_ReplayStep ==
    \A r \in Requests :
        (request'[r] # request[r] /\ request'[r].path = "ReturnSavedResponse") =>
            UNCHANGED <<idempotency, newsletter_issues, issue_delivery_queue>>

C19_NothingOfItsOwn ==
    \A r \in Requests :
        request[r].path = "ReturnSavedResponse" =>
            /\ IssuesCreated({r}) = {}
            /\ AllTasks(r) = {}
            /\ request[r].tx.idempotency = {}

\* C19: a publish request on the ReturnSavedResponse path changes none of the
\* tables idempotency, newsletter_issues and issue_delivery_queue in any of
\* its steps, and nothing of its own is ever in them, also when the first
\* publish's tasks have been drained or other subscribers have confirmed.
C19_ReplayChangesNothing == []C19_NothingOfItsOwn /\ [][C19_ReplayStep]_vars

\* A replay is under way after the worker drained the first publish's tasks
\* and a subscriber without a task of it confirmed.
C19_Witness ==
    \E p \in Requests, q \in Requests, e \in DOMAIN subscriptions :
        /\ SameUserAndKey(p, q) /\ Executed(p)
        /\ request[q].pc = "get_saved_response"
        /\ AllTasks(p) # {}
        /\ issue_delivery_queue = {}
        /\ \A w \in Workers : ~Held(w)
        /\ subscriptions[e] = "confirmed"
        /\ [newsletter_issue_uuid |-> p, subscriber_email |-> e] \notin AllTasks(p)

\* ------------------------------------------- claims: the completed record

Completed(row) == row.response_status_code # NULL

C20_KeptStep ==
    \A row \in idempotency : Completed(row) => row \in idempotency'

C20_WrittenByOwnerStep ==
    idempotency' # idempotency =>
        \E r \in Requests :
            /\ request[r].pc = "save_response"
            /\ HoldsReservation(r)
            /\ RowsOf(idempotency, request[r].user_id, request[r].idempotency_key) = {}
            /\ idempotency' = idempotency \cup {CompletedRow(r)}

C20_OneRecordPerKey ==
    \A row \in idempotency :
        /\ RowsOf(idempotency, row.user_uuid, row.idempotency_key) = {row}
        /\ Completed(row) =>
                get_saved_response(idempotency, row.idempotency_key, row.user_uuid)
                    = Ok(Some(RedirectToAdminNewsletters))

\* C20: a completed idempotency record, once committed, is kept as it is by
\* every step of the handler and of the worker: it is never deleted and its
\* status code, headers and body never change; a record's response fields are
\* written once, in the commit of the request whose transaction inserted it.
C20_CompletedRecordKept ==
    []C20_OneRecordPerKey /\ [][C20_KeptStep /\ C20_WrittenByOwnerStep]_vars

\* A record was completed; since then a request with its key was replayed and
\* the worker sent for the issue, and the record is there as it was written.
C20_Witness ==
    \E p \in Requests, q \in Requests :
        /\ SameUserAndKey(p, q) /\ Executed(p) /\ Replayed(q) /\ p \in request[q].after
        /\ idempotency = {CompletedRow(p)}
        /\ \E t \in DOMAIN sent : t.newsletter_issue_uuid = p

\* ------------------------------------------------- claims: keys per user

SameKeyOtherUser(p, q) ==
    /\ Arrived(p) /\ Arrived(q)
    /\ request[p].idempotency_key = request[q].idempotency_key
    /\ request[p].user_id # request[q].user_id

\* C21: idempotency keys are per user: a publish by one user with a key that
\* another user has completed, and that the user itself has not, takes
\* StartProcessing, creates an issue and delivery tasks of its own and a
\* record of its own, and is not answered from the other user's record.
C21_OwnPublish ==
    \A p \in Requests, q \in Requests :
        (/\ SameKeyOtherUser(p, q) /\ Executed(p) /\ Answered(q) /\ ~request[q].fault
         /\ \A x \in Requests \ {q} : SameUserAndKey(x, q) => ~Executed(x)) =>
            /\ Executed(q)
            /\ NewsletterIssue(q) \in newsletter_issues
            /\ TasksCreated(q) = DeliveryTasks(q)
            /\ {CompletedRow(p), CompletedRow(q)} \subseteq idempotency
            /\ CompletedRow(p) # CompletedRow(q)

\* Two users asked with one key, one after the other, and each executed a
\* publish of its own, the later one with tasks.
C21_Witness ==
    \E p \in Requests, q \in Requests :
        /\ SameKeyOtherUser(p, q) /\ p < q
        /\ Executed(p) /\ Executed(q)
        /\ Cardinality(newsletter_issues) = 2
        /\ TasksCreated(q) # {}
        /\ Cardinality(idempotency) = 2

\* ---------------------------------------------------------- subscribe claims

\* The confirmation link sent for `email` has been followed.
LinkVisited(email) ==
    \E row \in subscription_tokens :
        row.subscriber_id = email /\ row.subscription_token \in visited

C22_StoredPending ==
    \A email \in DOMAIN subscriptions' \ DOMAIN subscriptions :
        subscriptions'[email] = "pending_confirmation"

C22_ConfirmedOnlyVisited ==
    \A email \in DOMAIN subscriptions :
        subscriptions[email] = "confirmed" => LinkVisited(email)

C22_EnqueueStep ==
    \A r \in Requests :
        \A task \in AllTasks(r)' \ AllTasks(r) :
            /\ task.subscriber_email \in DOMAIN subscriptions
            /\ subscriptions[task.subscriber_email] = "confirmed"

\* C22: a subscriber that subscribe creates is stored as pending_confirmation
\* and is confirmed only once its confirmation link has been followed, and a
\* publish creates a delivery task only for subscribers confirmed at that
\* moment, none for one still pending.
C22_PendingUntilConfirmed ==
    /\ [][C22_StoredPending]_vars
    /\ []C22_ConfirmedOnlyVisited
    /\ [][C22_EnqueueStep]_vars

\* Two subscribers were created, one followed its link and one did not, and
\* a publish made then has a task for the confirmed one only.
C22_Witness ==
    /\ Executed(FirstRequest)
    /\ \E pending \in DOMAIN subscriptions, confirmed \in DOMAIN subscriptions :
        /\ subscriptions[pending] = "pending_confirmation" /\ ~LinkVisited(pending)
        /\ subscriptions[confirmed] = "confirmed"
        /\ AllTasks(FirstRequest) =
                {[newsletter_issue_uuid |-> FirstRequest, subscriber_email |-> confirmed]}

SubscribeArrives(s) == subscriber[s].pc = "idle" /\ subscriber'[s].pc # "idle"
SubscribeAnswered(s) == subscriber[s].pc = "done"

\* The form's name or email is present and does not parse.
InvalidFields(form) ==
    ~SubscriberNameParse(form.name).ok \/ ~SubscriberEmailParse(form.email).ok

\* Nothing of request s is in the tables, and no confirmation email of its
\* token was sent.
NothingOf(s) ==
    /\ \A row \in subscription_tokens :
            row.subscription_token # generate_subscription_token(s)
    /\ generate_subscription_token(s) \notin DOMAIN confirmation_emails

C23_ValidationStep ==
    \A s \in Subscribes :
        (/\ SubscribeArrives(s)
         /\ subscriber'[s].form[1].turnstile
         /\ InvalidFields(subscriber'[s].form[1])) =>
            /\ subscriber'[s].pc = "done"
            /\ subscriber'[s].response = Some(RedirectTo(ErrorValidation))
            /\ subscriber'[s].response[1].status = SEE_OTHER
            /\ UNCHANGED <<subscriptions, subscription_tokens, confirmation_emails>>

C23_InsertFailureStep ==
    \A s \in Subscribes :
        (subscriber[s].pc = "insert_subscriber" /\ subscriber'[s].fault = "insert_subscriber") =>
            /\ subscriber'[s].pc = "done"
            /\ subscriber'[s].response = Some(RedirectTo(ErrorServer))
            /\ subscriber'[s].response[1].status = SEE_OTHER
            /\ UNCHANGED <<subscriptions, subscription_tokens, confirmation_emails>>

C23_NothingStored ==
    \A s \in Subscribes :
        (/\ SubscribeAnswered(s)
         /\ \/ subscriber[s].error = "ValidationError"
            \/ subscriber[s].fault = "insert_subscriber") =>
            /\ NothingOf(s)
            /\ subscriber[s].tx = EmptySubscribeTx
            /\ writer # SubscribeWriter(s)

\* C23: a subscribe request that passes the Turnstile check and whose name or
\* email is present but invalid is redirected (303) to /?error=validation and
\* stores no subscriber and no token; a storage failure while the subscriber
\* is inserted is redirected (303) to /?error=server, commits no subscriber
\* and no token, and sends no confirmation email.
C23_ErrorRedirects ==
    /\ [][C23_ValidationStep]_vars
    /\ [][C23_InsertFailureStep]_vars
    /\ []C23_NothingStored

\* One request with invalid fields was redirected to /?error=validation and
\* another met a storage failure at insert_subscriber.
C23_Witness ==
    \E s \in Subscribes, t \in Subscribes :
        /\ SubscribeAnswered(s) /\ SubscribeAnswered(t)
        /\ subscriber[s].form[1].turnstile /\ InvalidFields(subscriber[s].form[1])
        /\ subscriber[s].response = Some(RedirectTo(ErrorValidation))
        /\ subscriber[t].fault = "insert_subscriber"
        /\ subscriber[t].response = Some(RedirectTo(ErrorServer))
        /\ subscriptions = <<>> /\ subscription_tokens = {} /\ confirmation_emails = <<>>

C23_AnyInvalidStep ==
    \A s \in Subscribes :
        (SubscribeArrives(s) /\ InvalidFields(subscriber'[s].form[1])) =>
            /\ subscriber'[s].response = Some(RedirectTo(ErrorValidation))
            /\ UNCHANGED <<subscriptions, subscription_tokens, confirmation_emails>>

\* C23 as the spec words it: every subscribe with a present but invalid name
\* or email is redirected to /?error=validation.  A request that also fails
\* the Turnstile check is redirected to /?error=captcha instead.
C23_AsStated == [][C23_AnyInvalidStep]_vars

\* The subscriber row and the token of request s are committed.
Committed(s) ==
    /\ subscriber[s].email \in DOMAIN subscriptions
    /\ SubscriptionToken(s) \in subscription_tokens

C24_CommitStep ==
    (DOMAIN subscriptions' # DOMAIN subscriptions \/ subscription_tokens' # subscription_tokens) =>
        \E s \in Subscribes :
            /\ subscriber[s].pc = "commit"
            /\ subscriber[s].email \notin DOMAIN subscriptions
            /\ subscriptions' = subscriptions @@ (subscriber[s].email :> "pending_confirmation")
            /\ SubscriptionToken(s) \notin subscription_tokens
            /\ subscription_tokens' = subscription_tokens \cup {SubscriptionToken(s)}
            /\ UNCHANGED confirmation_emails

C24_SendStep ==
    confirmation_emails' # confirmation_emails =>
        \E s \in Subscribes :
            /\ Committed(s)
            /\ subscriber[s].tx = EmptySubscribeTx /\ writer # SubscribeWriter(s)
            /\ generate_subscription_token(s) \notin DOMAIN confirmation_emails
            /\ confirmation_emails' =
                    confirmation_emails @@ (generate_subscription_token(s) :> 1)
            /\ subscriber'[s].pc = "done"
            /\ UNCHANGED <<subscriptions, subscription_tokens>>

C24_SendFailureStep ==
    \A s \in Subscribes :
        (subscriber[s].pc # "done" /\ subscriber'[s].fault = "send_confirmation_email") =>
            /\ Committed(s)'
            /\ subscriptions'[subscriber[s].email] = "pending_confirmation"
            /\ subscriber'[s].response = Some(RedirectTo(ErrorServer))

C24_ExactlyOne ==
    \A s \in Subscribes :
        /\ (SubscribeAnswered(s) /\ SubscriptionToken(s) \in subscription_tokens) =>
                /\ generate_subscription_token(s) \in DOMAIN confirmation_emails
                /\ confirmation_emails[generate_subscription_token(s)] = 1
                /\ subscriber[s].email \in DOMAIN subscriptions
        /\ (/\ SubscribeAnswered(s) /\ subscriber[s].error = ""
            /\ generate_subscription_token(s) \in DOMAIN confirmation_emails) =>
                subscriber[s].response = Some(RedirectTo(Subscribed))
        /\ (SubscribeAnswered(s) /\ subscriber[s].error = "") =>
                /\ subscriber[s].email \in DOMAIN subscriptions
                /\ subscriber[s].response = Some(RedirectTo(Subscribed))

\* C24: subscribe commits the subscriber row, as pending_confirmation, and its
\* token in one step, sends the confirmation email only after that commit and
\* exactly once, and when that send fails answers with the redirect to
\* /?error=server while the committed pending subscriber and token stay.
C24_CommitThenSend ==
    /\ [][C24_CommitStep]_vars
    /\ [][C24_SendStep]_vars
    /\ [][C24_SendFailureStep]_vars
    /\ []C24_ExactlyOne

\* One subscription went through with its one email, and another was
\* committed and then failed at the send: it is stored, pending, with its
\* token, and was answered with /?error=server.
C24_Witness ==
    \E s \in Subscribes, t \in Subscribes :
        /\ SubscribeAnswered(s) /\ SubscribeAnswered(t)
        /\ subscriber[s].response = Some(RedirectTo(Subscribed))
        /\ Committed(s) /\ confirmation_emails[generate_subscription_token(s)] = 1
        /\ subscriber[t].fault = "send_confirmation_email"
        /\ subscriber[t].response = Some(RedirectTo(ErrorServer))
        /\ Committed(t) /\ subscriptions[subscriber[t].email] = "pending_confirmation"
        /\ confirmation_emails[generate_subscription_token(t)] = 1

\* ------------------------------------------------------------ aborted publish

abort_committing(r) ==
    /\ request[r].tx.open
    /\ request[r].path = "StartProcessing"
    /\ writer = r
    /\ idempotency' = idempotency \cup request[r].tx.idempotency
    /\ newsletter_issues' = newsletter_issues \cup request[r].tx.newsletter_issues
    /\ issue_delivery_queue' = issue_delivery_queue \cup request[r].tx.issue_delivery_queue
    /\ request' = [request EXCEPT ![r] =
            [@ EXCEPT !.pc = "done", !.tx = EmptyTx, !.error = "aborted", !.fault = TRUE]]
    /\ writer' = 0
    /\ UNCHANGED <<subscriptions, worker, returned, histVars, dispatchVars, subscribeVars, rt>>

\* The handler is cut off between try_processing's INSERT and
\* save_response's commit (the connection is closed, the task is cancelled):
\* its Transaction is dropped, which rolls it back and frees the write lock,
\* and no response goes out.
abort(r) ==
    /\ request[r].tx.open
    /\ request[r].path = "StartProcessing"
    /\ writer = r
    /\ request' = [request EXCEPT ![r] =
            [@ EXCEPT !.pc = "done", !.tx = EmptyTx, !.error = "aborted", !.fault = TRUE]]
    /\ writer' = 0
    /\ UNCHANGED <<dbVars, worker, returned, histVars, dispatchVars, subscribeVars, rt>>

\* One step of the handler for request r, the storage answering.
handler_step(r) ==
    \/ try_processing(r, FALSE)
    \/ return_saved_response(r, FALSE)
    \/ insert_newsletter_issue(r, FALSE)
    \/ enqueue_delivery_tasks(r, FALSE)
    \/ save_response(r, FALSE)

NextAbort ==
    \/ \E r \in Requests, form \in PublishInputs :
            publish_newsletter(r, form.user_id, form.idempotency_key)
    \/ \E r \in Requests : handler_step(r)
    \/ \E r \in Requests : abort(r)

SpecAbort == Init /\ [][NextAbort]_vars

\* The runtime keeps polling every handler that can make a step.
SpecAbortFair == SpecAbort /\ \A r \in Requests : WF_vars(handler_step(r))

Aborted(r) == Answered(r) /\ request[r].error = "aborted"

C25_AbortStep ==
    \A r \in Requests :
        (~Aborted(r) /\ Aborted(r)') =>
            /\ HoldsReservation(r)
            /\ UNCHANGED <<idempotency, newsletter_issues, issue_delivery_queue>>
            /\ request'[r].tx = EmptyTx
            /\ writer' = 0

C25_NothingLeft ==
    \A p \in Requests :
        Aborted(p) =>
            /\ NewsletterIssue(p) \notin newsletter_issues
            /\ AllTasks(p) = {}
            /\ (\A x \in Requests : SameUserAndKey(p, x) => ~Executed(x)) =>
                    RowsOf(idempotency, request[p].user_id, request[p].idempotency_key) = {}

C25_RetryReserves ==
    \A p \in Requests, q \in Requests :
        (/\ SameUserAndKey(p, q) /\ Aborted(p) /\ p \in request[q].after
         /\ request[q].pc # "try_processing"
         /\ \A x \in Requests \ {q} : SameUserAndKey(p, x) => ~Executed(x)) =>
            request[q].path = "StartProcessing"

\* A request at its reservation INSERT while a request with its user and key
\* holds the write lock with an uncommitted reservation.
Waiting(q) ==
    /\ request[q].pc = "try_processing"
    /\ writer \in Requests \ {q}
    /\ SameUserAndKey(writer, q)
    /\ HoldsReservation(writer)

C25_WaiterProceeds == \A q \in Requests : Waiting(q) ~> request[q].pc # "try_processing"

\* C25: a publish request aborted between its reservation insert and its
\* commit is rolled back and leaves no idempotency record, issue or task; a
\* later request with its user and key obtains StartProcessing; and a request
\* that was waiting on the reservation gets past its insert.
C25_AbortRollsBack ==
    /\ [][C25_AbortStep]_vars
    /\ []C25_NothingLeft
    /\ []C25_RetryReserves
    /\ C25_WaiterProceeds

\* A request was aborted while another with its user and key was waiting, and
\* the other then executed the publish itself.
C25_Witness ==
    \E p \in Requests, q \in Requests :
        /\ SameUserAndKey(p, q) /\ Aborted(p)
        /\ request[q].after = {}
        /\ Executed(q)
        /\ idempotency = {CompletedRow(q)}
        /\ newsletter_issues = {NewsletterIssue(q)}

\* -------------------------------------------------- records of the handler

ExpectedSavedResponse == "We expected a saved response, we didn't find it"

\* C26: with publish_newsletter the only writer of table idempotency, every
\* committed idempotency record has its saved response, under every
\* interleaving of requests, storage failures and rollbacks, and no request
\* ends in try_processing's "We expected a saved response" error or in a
\* failure to read a saved response that the storage did not cause.
C26_NoPendingRecordCommitted ==
    /\ \A row \in idempotency : Completed(row)
    /\ \A r \in Requests :
        /\ request[r].error # ExpectedSavedResponse
        /\ (request[r].error = "get_saved_response") => request[r].fault

\* A publish was rolled back at its commit after a storage failure, a request
\* with its user and key then executed, and the table holds that request's
\* completed record only.
C26_Witness ==
    \E p \in Requests, q \in Requests :
        /\ SameUserAndKey(p, q) /\ p \in request[q].after
        /\ RolledBack(p) /\ request[p].error = "save_response"
        /\ Executed(q)
        /\ idempotency = {CompletedRow(q)}

IssueOf(task) == {i \in newsletter_issues : i.newsletter_issue_uuid = task.newsletter_issue_uuid}

\* C27: in every committed state each row of the delivery queue, and each
\* task a worker has dequeued, references a newsletter issue that exists; a
\* transaction holds tasks only together with their issue, inserted before
\* them; and a committed issue stays in the table as it was inserted.
C27_TasksReferenceIssues ==
    /\ \A task \in issue_delivery_queue \cup Dequeued : IssueOf(task) # {}
    /\ \A r \in Requests :
        /\ request[r].tx.issue_delivery_queue # {} =>
                NewsletterIssue(r) \in request[r].tx.newsletter_issues
        /\ request[r].pc = "enqueue_delivery_tasks" =>
                /\ NewsletterIssue(r) \in request[r].tx.newsletter_issues
                /\ request[r].tx.issue_delivery_queue = {}
        /\ Executed(r) => NewsletterIssue(r) \in newsletter_issues
    /\ \A i \in newsletter_issues : i = NewsletterIssue(i.newsletter_issue_uuid)

\* A committed publish with one task still queued and one dequeued by the
\* worker, both of the issue that is in the table.
C27_Witness ==
    \E r \in Requests :
        /\ Executed(r)
        /\ newsletter_issues = {NewsletterIssue(r)}
        /\ \E task \in issue_delivery_queue : task.newsletter_issue_uuid = r
        /\ \E w \in Workers : Held(w) /\ worker[w].task[1].newsletter_issue_uuid = r

\* A step of some try_execute_task call; a step of some publish_newsletter.
WorkerStep == worker' # worker \/ returned' # returned
PublishStep == request' # request

C28_WorkerFrame ==
    WorkerStep =>
        /\ UNCHANGED <<idempotency, newsletter_issues, subscriptions, writer, request>>
        /\ issue_delivery_queue' \subseteq issue_delivery_queue
        /\ Cardinality(issue_delivery_queue \ issue_delivery_queue') <= 1
        /\ \A w \in Workers :
            (worker'[w] # worker[w] /\ worker[w].pc # "dequeue_task") =>
                UNCHANGED issue_delivery_queue

C28_PublishFrame ==
    PublishStep =>
        /\ issue_delivery_queue \subseteq issue_delivery_queue'
        /\ UNCHANGED <<worker, returned>>

\* C28: a step of try_execute_task changes no table but the delivery queue,
\* from which only its dequeue removes, and one row at most, so a call
\* removes at most one task and never touches issues or idempotency records;
\* a step of publish_newsletter never removes a delivery task.
C28_Ownership == [][C28_WorkerFrame]_vars /\ [][C28_PublishFrame]_vars

\* After a committed publish with several tasks, one call of try_execute_task
\* has completed: one task is gone, the others remain, the issue and the
\* idempotency record are as the publish left them.
C28_Witness ==
    /\ Executed(FirstRequest)
    /\ Cardinality(DeliveryTasks(FirstRequest)) >= 2
    /\ returned.outcome = "TaskCompleted"
    /\ \A w \in Workers : worker[w] = IdleWorker
    /\ Cardinality(DOMAIN claimed) = 1
    /\ issue_delivery_queue = DeliveryTasks(FirstRequest) \ DOMAIN claimed
    /\ newsletter_issues = {NewsletterIssue(FirstRequest)}
    /\ idempotency = {CompletedRow(FirstRequest)}

CompletedRecords == {row \in idempotency : Completed(row)}
ExecutedRequests == {r \in Requests : Executed(r)}

\* C29: in every committed state the number of newsletter issues equals the
\* number of completed idempotency records, and both equal the number of
\* requests that executed and committed: a replayed, rejected or failed
\* request adds neither.
C29_IssuesMatchRecords ==
    /\ Cardinality(newsletter_issues) = Cardinality(CompletedRecords)
    /\ Cardinality(newsletter_issues) = Cardinality(ExecutedRequests)
    /\ newsletter_issues = {NewsletterIssue(r) : r \in ExecutedRequests}
    /\ CompletedRecords = {CompletedRow(r) : r \in ExecutedRequests}

\* One request executed and another with its user and key was replayed while
\* the worker had already taken a task: one issue, one completed record.
C29_Witness ==
    \E p \in Requests, q \in Requests :
        /\ Executed(p) /\ Replayed(q) /\ SameUserAndKey(p, q)
        /\ Cardinality(newsletter_issues) = 1
        /\ Cardinality(CompletedRecords) = 1
        /\ DOMAIN claimed # {}

\* Request r is on, or went down, the lookup path.
TookLookupPath(r) == request[r].path = "ReturnSavedResponse"

\* The committed, completed records of r's user and key.
CommittedRecordsOf(r) ==
    {row \in RowsOf(idempotency, request[r].user_id, request[r].idempotency_key) :
        Completed(row)}

C30_LookupOnlyCommitted ==
    \A q \in Requests :
        TookLookupPath(q) =>
            /\ CommittedRecordsOf(q) # {}
            /\ \E p \in Requests \ {q} : SameUserAndKey(p, q) /\ Executed(p)
            /\ \A p \in Requests \ {q} : SameUserAndKey(p, q) => ~HoldsReservation(p)

C30_WaiterExecutes ==
    \A p \in Requests, q \in Requests :
        (/\ p # q /\ SameUserAndKey(p, q)
         /\ RolledBack(p) /\ p \notin request[q].after
         /\ request[q].pc # "try_processing" /\ request[q].error # "try_processing"
         /\ \A x \in Requests \ {q} : SameUserAndKey(x, q) => ~Executed(x)) =>
            /\ request[q].path = "StartProcessing"
            /\ (Answered(q) /\ ~request[q].fault) => Executed(q)

C30_OneCommit ==
    \A p \in Requests, q \in Requests :
        (p # q /\ SameUserAndKey(p, q)) =>
            /\ ~(Executed(p) /\ Executed(q))
            /\ ~({NewsletterIssue(p), NewsletterIssue(q)} \subseteq newsletter_issues)

\* C30: a request takes the lookup path only against a committed, completed
\* record, never against another request's uncommitted reservation; when the
\* request that held the reservation rolls back, a request that was waiting
\* with its user and key gets StartProcessing and, unless the storage fails
\* under it, executes the publish itself; and no two requests with one user
\* and key both commit an issue.
C30_WaiterNeverSeesUncommitted ==
    /\ C30_LookupOnlyCommitted
    /\ C30_WaiterExecutes
    /\ C30_OneCommit

\* A request held the reservation and was rolled back by a failed enqueue; a
\* request with its user and key that had arrived meanwhile executed, and the
\* only issue is its own.
C30_Witness ==
    \E p \in Requests, q \in Requests :
        /\ p # q /\ SameUserAndKey(p, q)
        /\ RolledBack(p) /\ request[p].error = "Failed to enqueue delivery tasks"
        /\ request[q].after = {}
        /\ Executed(q)
        /\ newsletter_issues = {NewsletterIssue(q)}
        /\ idempotency = {CompletedRow(q)}

\* ------------------------------------------- claims: no confirmed subscriber

C31_PublishCommits ==
    \A r \in Requests :
        /\ (Answered(r) /\ request[r].path = "StartProcessing" /\ ~request[r].fault) =>
                Executed(r)
        /\ Executed(r) =>
                /\ NewsletterIssue(r) \in newsletter_issues
                /\ CompletedRow(r) \in idempotency
                /\ AllTasks(r) = {}
                /\ request[r].response = Some(RedirectToAdminNewsletters)
                /\ request[r].response[1].status = SEE_OTHER

C31_AttemptFindsNothing ==
    /\ issue_delivery_queue = {}
    /\ DOMAIN claimed = {} /\ DOMAIN sent = {}
    /\ \A w \in Workers : ~Held(w)
    /\ returned.outcome \in {"", "EmptyQueue", "Err"}
    /\ returned.outcome = "Err" => returned.detail = "dequeue_task"

C31_RepeatReplays ==
    \A p \in Requests, q \in Requests :
        (SameUserAndKey(p, q) /\ p \in request[q].after /\ Executed(p) /\ Answered(q)) =>
            /\ ~request[q].fault => Replayed(q)
            /\ Replayed(q) => request[q].response = request[p].response
            /\ NewsletterIssue(q) \notin newsletter_issues
            /\ IssuesCreated({p, q}) = {NewsletterIssue(p)}

\* C31: when no subscriber is confirmed, a publish that the storage does not
\* fail commits its issue and a completed idempotency record with no delivery
\* task and is answered with the redirect; every worker attempt then finds
\* the queue empty and returns EmptyQueue (or the storage's error), never a
\* completed task; and a repeat of the request with its key is answered with
\* the saved response and creates no issue.
C31_PublishToNobody ==
    (ConfirmedSubscribers = {}) =>
        /\ C31_PublishCommits
        /\ C31_AttemptFindsNothing
        /\ C31_RepeatReplays

\* No subscriber is confirmed; a publish was committed, the worker's attempt
\* returned EmptyQueue, and the repeat of the request was replayed: one
\* issue, one completed record, no task.
C31_Witness ==
    \E p \in Requests, q \in Requests :
        /\ ConfirmedSubscribers = {}
        /\ SameUserAndKey(p, q) /\ p \in request[q].after
        /\ Executed(p) /\ Replayed(q)
        /\ returned.outcome = "EmptyQueue"
        /\ newsletter_issues = {NewsletterIssue(p)}
        /\ idempotency = {CompletedRow(p)}
        /\ issue_delivery_queue = {}

\* ------------------------------------------------ claims: one email per pair

\* How many times send_email was called for the (issue, address) of `task`.
SendCount(task) == IF task \in DOMAIN sent THEN sent[task] ELSE 0

\* The executions that hold `task`, dequeued and not yet done with.
Holders(task) == {w \in Workers : Held(w) /\ worker[w].task[1] = task}

\* C32: for every issue and every recipient address send_email is called at
\* most once, under every interleaving of publishes, repeats of a publish and
\* try_execute_task executions: the pair's task is in the queue, or held by
\* one execution, or has had its one send, never two of these.
C32_OneSendPerIssueAndAddress ==
    \A r \in Requests, email \in DOMAIN subscriptions :
        LET task == [newsletter_issue_uuid |-> r, subscriber_email |-> email] IN
        /\ SendCount(task) <= 1
        /\ Cardinality(Holders(task)) + SendCount(task)
                + (IF task \in issue_delivery_queue THEN 1 ELSE 0) <= 1

\* A publish was committed and repeated, the repeat was replayed, the queue
\* is drained, and the one valid address of the issue had one send.
C32_Witness ==
    \E p \in Requests, q \in Requests :
        /\ SameUserAndKey(p, q) /\ Executed(p) /\ Replayed(q)
        /\ issue_delivery_queue = {}
        /\ \A w \in Workers : ~Held(w)
        /\ SendCount([newsletter_issue_uuid |-> p, subscriber_email |-> Ursula]) = 1
        /\ Cardinality(DOMAIN claimed) = 2

\* ------------------------------------------------------ draining the queue

\* The attempt worker_loop has called is running and the storage answers it;
\* the email may still fail to go out.
loop_attempt_storage_ok ==
    /\ loop.pc = "try_execute_task"
    /\ returned.outcome = ""
    /\ \/ dequeue_task(TheWorker, FALSE)
       \/ parse_and_get_issue(TheWorker, FALSE)
       \/ \E delivered \in BOOLEAN : send_email(TheWorker, delivered)

\* The steps of the worker's own task.
worker_loop_step ==
    \/ loop_attempt_storage_ok
    \/ worker_loop
    \/ worker_loop_wake

NextDrain ==
    \/ loop_publish
    \/ worker_loop_step

SpecDrain == InitWorkers /\ [][NextDrain]_vars

\* The runtime keeps polling the worker's task, and a publish that has
\* arrived runs to its end.
SpecDrainFair ==
    SpecDrain /\ WF_vars(worker_loop_step) /\ WF_vars(handler_step(FirstRequest))

\* The delivery tasks a publish can commit.
PossibleTasks ==
    {[newsletter_issue_uuid |-> r, subscriber_email |-> email] :
        r \in Requests, email \in WorkerEmails}

C33_EveryTaskDequeued ==
    \A task \in PossibleTasks :
        (task \in issue_delivery_queue) ~> (task \in DOMAIN claimed)

C33_Drained ==
    /\ issue_delivery_queue = {}
    /\ ~Held(TheWorker)
    /\ returned.outcome \in {"", "EmptyQueue"}

\* C33: with the worker's loop fairly scheduled, the publish running to its
\* end and the storage answering, every task committed to the delivery queue
\* is eventually dequeued, and eventually the queue is empty for good and
\* every attempt, of which there is always another, returns EmptyQueue.
C33_QueueDrains ==
    /\ C33_EveryTaskDequeued
    /\ <>[]C33_Drained
    /\ []<>(returned.outcome = "EmptyQueue")

\* The publish committed three tasks, the loop has dequeued them all, and
\* the attempt after the last one returned EmptyQueue.
C33_Witness ==
    /\ Executed(FirstRequest)
    /\ Cardinality(DeliveryTasks(FirstRequest)) = 3
    /\ DOMAIN claimed = DeliveryTasks(FirstRequest)
    /\ C33_Drained
    /\ returned.outcome = "EmptyQueue"

\* ------------------------------------------------ claims: a stored email

\* Request s, accepted up to its INSERT, finds its email stored, and the
\* storage answers the statement.
InsertsDuplicate(s) ==
    /\ subscriber[s].pc = "insert_subscriber"
    /\ subscriber[s].email \in DOMAIN subscriptions
    /\ subscriber'[s] # subscriber[s]
    /\ subscriber'[s].fault = ""

C34_DuplicateStep ==
    \A s \in Subscribes :
        InsertsDuplicate(s) =>
            /\ subscriber'[s].pc = "done"
            /\ subscriber'[s].error = ""
            /\ subscriber'[s].response = Some(RedirectTo(Subscribed))
            /\ subscriber'[s].tx = EmptySubscribeTx
            /\ writer' # SubscribeWriter(s)
            /\ UNCHANGED <<subscriptions, subscription_tokens, confirmation_emails>>

\* Request s was answered as subscribed without having stored anything: its
\* email was a stored one.
AnsweredDuplicate(s) ==
    /\ SubscribeAnswered(s) /\ subscriber[s].error = ""
    /\ SubscriptionToken(s) \notin subscription_tokens

C34_SameAnswer ==
    \A s \in Subscribes :
        /\ (SubscribeAnswered(s) /\ subscriber[s].error = "") =>
                subscriber[s].response = Some(RedirectTo(Subscribed))
        /\ AnsweredDuplicate(s) =>
                /\ NothingOf(s)
                /\ subscriber[s].email \in DOMAIN subscriptions
                /\ \E t \in Subscribes \ {s} :
                        /\ subscriber[t].email = subscriber[s].email
                        /\ SubscriptionToken(t) \in subscription_tokens

\* C34: a subscribe request, accepted up to its INSERT, whose email is
\* already stored is answered with the redirect to /?subscribed=true that a
\* new subscription gets, adds no subscriber row and no token, leaves the
\* stored subscriber's status as it is and sends no confirmation email.
C34_DuplicateEmail == [][C34_DuplicateStep]_vars /\ []C34_SameAnswer

\* A subscriber confirmed, then subscribed again with the same email: the
\* second request was answered as subscribed, the subscriber is still
\* confirmed, and the only token and the only confirmation email are the
\* first request's.
C34_Witness ==
    \E s \in Subscribes, t \in Subscribes :
        /\ s # t /\ subscriber[s].email = subscriber[t].email
        /\ Committed(s) /\ AnsweredDuplicate(t)
        /\ subscriber[s].response = subscriber[t].response
        /\ subscriptions[subscriber[t].email] = "confirmed"
        /\ subscription_tokens = {SubscriptionToken(s)}
        /\ DOMAIN confirmation_emails = {generate_subscription_token(s)}

====
